---- MODULE Spec2Model ----
(***************************************************************************)
(* Model of the adaptive LSB-MSB steganography codec of                    *)
(* src/adaptive_stego.py (class AdaptiveSteganography): one encode call    *)
(* followed by one decode call of the file that encode saved, both on the  *)
(* same instance (same BLOCK_SIZE and EDGE_THRESHOLD).                     *)
(*                                                                         *)
(* Images are functions row -> column -> sample, 0-based as in numpy.      *)
(* Real-valued quantities are kept exact where the code's comparisons      *)
(* allow it (Me is kept as the integer 2*B*Me) and in fixed point          *)
(* otherwise (the Sobel magnitude is floor(SqrtScale * sqrt(gx^2+gy^2))).  *)
(***************************************************************************)
EXTENDS Integers, Sequences, FiniteSets, TLC

VARIABLES
    pc,              \* position of the caller: which call runs, and where
    cover_image_path,\* encode's argument: names a file of the file system
    payload_bytes,   \* encode's argument
    BLOCK_SIZE,      \* self.BLOCK_SIZE
    EDGE_THRESHOLD,  \* self.EDGE_THRESHOLD
    enc,             \* locals of the running/finished encode call
    out_file,        \* contents of output_path (absent until cv2.imwrite)
    enc_ret,         \* value returned by encode (or the exception raised)
    dec,             \* locals of the running/finished decode call
    dec_ret,         \* bytes returned by decode
    lsb,             \* SteganographyLSB (steno.py): one encode, then one decode
    ea,              \* EdgeAdaptiveLSB (steno_enhanced.py): one encode, then one decode
    met,             \* metricscalc.py: the metrics of one pair of images
    rs,              \* RSAnalysis.analyze (steganalysis.py): one call
    pipe             \* the path of the payload bits through one pixel pair

\* the variables of the adaptive codec, and the others
AdaptiveVars == <<pc, cover_image_path, payload_bytes, BLOCK_SIZE, EDGE_THRESHOLD,
                  enc, out_file, enc_ret, dec, dec_ret>>
NotAdaptive == <<lsb, ea, met, rs, pipe>>
NotLsb == <<AdaptiveVars, ea, met, rs, pipe>>
NotEa == <<AdaptiveVars, lsb, met, rs, pipe>>
NotMet == <<AdaptiveVars, lsb, ea, rs, pipe>>
NotRs == <<AdaptiveVars, lsb, ea, met, pipe>>
NotPipe == <<AdaptiveVars, lsb, ea, met, rs>>

vars == <<AdaptiveVars, lsb, ea, met, rs, pipe>>

----------------------------------------------------------------------------
(* Bounds of the model *)

\* longest payload, in bytes
MaxPayloadBytes == 2

\* fixed-point scale of the Sobel magnitude (np.sqrt result, float64 in the code)
SqrtScale == 16

----------------------------------------------------------------------------
(* Program constants *)

\* columns of row 0 used by the header: 8 (UB) + 8 (LB) + 32 (length)
UBWidth == 8
LBWidth == 8
LenWidth == 32
HeaderWidth == UBWidth + LBWidth + LenWidth


----------------------------------------------------------------------------
(* Bit helpers *)

\* (p >> k) & 1 ; payload lengths of the model are far below 2^31, so the
\* top bit of the 32-bit length field is 0 and 2^31 is never formed.
Bit(p, k) == IF k >= 31 THEN 0 ELSE (p \div (2^k)) % 2

\* (p & ~(1 << k)) | (b << k)
SetBit(p, k, b) == p - Bit(p, k) * (2^k) + b * (2^k)

\* format(n, '0<width>b'): MSB first, 1-based sequence of bits
FormatBits(n, width) == [i \in 1..width |-> Bit(n, width - i)]

\* sum of a function over a finite set of integers
RECURSIVE SumOver(_, _)
SumOver(S, f) ==
    IF S = {} THEN 0
    ELSE LET lo == CHOOSE v \in S : \A u \in S : v <= u
             hi == CHOOSE v \in S : \A u \in S : u <= v
             mid == (lo + hi) \div 2
             low == {v \in S : v <= mid}
         IN  IF lo = hi THEN f[lo]
             ELSE SumOver(low, f) + SumOver(S \ low, f)

\* int(bits, 2) for a bit string whose value is below 2^31
ParseBits(bits) ==
    LET n == Len(bits)
    IN  SumOver(1..n, [i \in 1..n |-> IF bits[i] = 0 THEN 0 ELSE 2^(n - i)])

\* the sequences over S of length at most n
RECURSIVE SeqsUpTo(_, _)
SeqsUpTo(S, n) ==
    IF n = 0 THEN {<<>>}
    ELSE LET shorter == SeqsUpTo(S, n - 1)
         IN  shorter \cup {Append(q, v) : q \in {r \in shorter : Len(r) = n - 1}, v \in S}

\* the bit string with each byte written least significant bit first
PayloadBitsLSBFirst(bytes) ==
    [n \in 1..(8 * Len(bytes)) |-> Bit(bytes[((n - 1) \div 8) + 1], (n - 1) % 8)]

\* ''.join(format(byte, '08b') for byte in payload_bytes)
PayloadBits(bytes) ==
    [n \in 1..(8 * Len(bytes)) |-> Bit(bytes[((n - 1) \div 8) + 1], 7 - ((n - 1) % 8))]

----------------------------------------------------------------------------
(* The file system: cover images *)

CoverPaths ==
    {"missing", "narrow", "sliver", "flat", "ramp", "stripes", "mixed", "spot", "color", "wide",
     "ragged"}

CoverHeight(path) == IF path = "ragged" THEN 9 ELSE 8
CoverWidth(path) ==
    CASE path = "narrow" -> 40
      [] path = "sliver" -> 8
      [] path = "wide"   -> 56
      [] path = "ragged" -> 50
      [] OTHER           -> 48

\* the BGR sample triple at (y, x) of the file
CoverPixel(path, y, x) ==
    CASE path = "flat"    -> <<0, 0, 0>>
      [] path = "narrow"  -> <<x * 5, x * 5, x * 5>>
      [] path = "sliver"  -> <<x * 5, x * 5, x * 5>>
      [] path = "wide"    -> IF x < 50 THEN <<65, 65, 65>> ELSE <<201, 201, 201>>
      [] path = "ramp"    -> <<x * 5, x * 5, x * 5>>
      [] path = "stripes" -> IF y % 2 = 0 THEN <<0, 0, 0>> ELSE <<255, 255, 255>>
      [] path = "mixed"   -> LET v == (x * 37 + y * 11 + x * y * 7) % 256 IN <<v, v, v>>
      [] path = "spot"    -> IF y = 4 /\ x = 20 THEN <<100, 100, 100>> ELSE <<64, 64, 64>>
      [] path = "color"   -> <<(x * 5) % 256, (y * 30) % 256, 100>>
      [] path = "ragged"  -> LET v == IF x < 24 THEN 70 ELSE (x * 37 + y * 11 + x * y * 7) % 256
                             IN  <<v, v, v>>

\* cv2.imread(path) returns None for a file it cannot read
FileReadable(path) == path # "missing"

\* cv2.imread(path) of a readable file: a BGR image
ImRead(path) ==
    [h |-> CoverHeight(path), w |-> CoverWidth(path),
     px |-> [y \in 0..(CoverHeight(path) - 1) |->
               [x \in 0..(CoverWidth(path) - 1) |-> CoverPixel(path, y, x)]]]

\* cv2.cvtColor(image, cv2.COLOR_BGR2GRAY) on one pixel: 15-bit fixed point BT.601
GrayOf(bgr) == (bgr[1] * 3735 + bgr[2] * 19235 + bgr[3] * 9798 + 16384) \div 32768

\* the gray plane of a BGR image
GrayImage(img) ==
    [y \in 0..(img.h - 1) |-> [x \in 0..(img.w - 1) |-> GrayOf(img.px[y][x])]]

----------------------------------------------------------------------------
(* _compute_edge_map: Sobel magnitude *)

\* cv2's default border, BORDER_REFLECT_101: index -1 -> 1, index n -> n-2
Reflect101(p, n) ==
    IF n = 1 THEN 0
    ELSE IF p < 0 THEN 0 - p
    ELSE IF p >= n THEN 2 * n - 2 - p
    ELSE p

\* floor(sqrt(n)) by bisection on lo..hi (lo*lo <= n < (hi+1)*(hi+1))
RECURSIVE ISqrtIn(_, _, _)
ISqrtIn(n, lo, hi) ==
    IF lo >= hi THEN lo
    ELSE LET mid == (lo + hi + 1) \div 2
         IN IF mid * mid <= n THEN ISqrtIn(n, mid, hi) ELSE ISqrtIn(n, lo, mid - 1)

Abs(v) == IF v < 0 THEN 0 - v ELSE v

\* np.sqrt(sobelx**2 + sobely**2) at one pixel, in units of 1/SqrtScale,
\* rounded down; the root lies between max(|gx|, |gy|) and |gx| + |gy|
SobelMagnitude(gx, gy) ==
    LET a == Abs(gx)
        b == Abs(gy)
    IN  ISqrtIn((a * a + b * b) * SqrtScale * SqrtScale,
                (IF a >= b THEN a ELSE b) * SqrtScale, (a + b) * SqrtScale)

\* cv2.Sobel(gray, CV_64F, 1, 0, ksize=3) at (y, x)
SobelX(g, h, w, y, x) ==
    LET ym == Reflect101(y - 1, h)
        yp == Reflect101(y + 1, h)
        xm == Reflect101(x - 1, w)
        xp == Reflect101(x + 1, w)
    IN  (g[ym][xp] - g[ym][xm]) + 2 * (g[y][xp] - g[y][xm]) + (g[yp][xp] - g[yp][xm])

\* cv2.Sobel(gray, CV_64F, 0, 1, ksize=3) at (y, x)
SobelY(g, h, w, y, x) ==
    LET ym == Reflect101(y - 1, h)
        yp == Reflect101(y + 1, h)
        xm == Reflect101(x - 1, w)
        xp == Reflect101(x + 1, w)
    IN  (g[yp][xm] - g[ym][xm]) + 2 * (g[yp][x] - g[ym][x]) + (g[yp][xp] - g[ym][xp])

\* _compute_edge_map on a gray plane g of h rows and w columns
ComputeEdgeMap(g, h, w) ==
    [y \in 0..(h - 1) |->
        [x \in 0..(w - 1) |->
            SobelMagnitude(SobelX(g, h, w, y, x), SobelY(g, h, w, y, x))]]

----------------------------------------------------------------------------
(* _partition_into_blocks, block scores and the block order *)

\* the (bi, bj) origins of the tiles, in the order the two range loops append them
PartitionIntoBlocks(h, w, B) ==
    LET nr == IF h >= B THEN h \div B ELSE 0
        nc == IF w >= B THEN w \div B ELSE 0
    IN  [t \in 1..(nr * nc) |-> <<((t - 1) \div nc) * B, ((t - 1) % nc) * B>>]

\* np.mean(edge_map[bi:bi+B, bj:bj+B]) times B*B*SqrtScale
BlockEdgeSum(em, bi, bj, B) ==
    LET rowsum == [y \in bi..(bi + B - 1) |->
                     SumOver(bj..(bj + B - 1), em[y])]
    IN  SumOver(bi..(bi + B - 1), rowsum)

\* the threshold test with the comparison reversed
AboveThreshold(score, B, T) == score > T * B * B * SqrtScale

\* the threshold test left out: no block is skipped
BelowThresholdNever(score, B, T) == FALSE

\* edge_score < self.EDGE_THRESHOLD
BelowThreshold(score, B, T) == score < T * B * B * SqrtScale

\* a descending sort that is not stable: records with equal scores come out in
\* the reverse of their list order (what reversing an ascending sort gives)
SortTiesReversed(s) ==
    LET n == Len(s)
        place == SubSeq([t \in 1..n |->
                    1 + Cardinality({m \in 1..n : s[m].score > s[t].score})
                      + Cardinality({m \in (t + 1)..n : s[m].score = s[t].score})], 1, n)
    IN  [p \in 1..n |-> s[CHOOSE t \in 1..n : place[t] = p]]

\* list.sort(reverse=True, key=score) is stable: records with equal scores keep
\* their list order. The place of s[t] in the sorted list is one more than the
\* number of records that go before it.
SortDescending(s) ==
    LET n == Len(s)
        place == SubSeq([t \in 1..n |->
                    1 + Cardinality({m \in 1..n : s[m].score > s[t].score})
                      + Cardinality({m \in 1..(t - 1) : s[m].score = s[t].score})], 1, n)
    IN  [p \in 1..n |-> s[CHOOSE t \in 1..n : place[t] = p]]

\* block_edge_scores built from blocks in place of blocks[1:]: the first tile
\* is scored and listed as well
BlockEdgeScoresAll(em, h, w, B) ==
    LET blocks == PartitionIntoBlocks(h, w, B)
        n == Len(blocks)
        scored == SubSeq([t \in 1..n |->
                     [score |-> BlockEdgeSum(em, blocks[t][1], blocks[t][2], B),
                      bi |-> blocks[t][1],
                      bj |-> blocks[t][2]]], 1, n)
    IN  SortDescending(scored)

\* block_edge_scores of encode and decode: blocks[1:] scored on edge_map, sorted
BlockEdgeScores(em, h, w, B) ==
    LET blocks == PartitionIntoBlocks(h, w, B)
        n == IF Len(blocks) = 0 THEN 0 ELSE Len(blocks) - 1
        scored == SubSeq([t \in 1..n |->
                     [score |-> BlockEdgeSum(em, blocks[t + 1][1], blocks[t + 1][2], B),
                      bi |-> blocks[t + 1][1],
                      bj |-> blocks[t + 1][2]]], 1, n)
    IN  SortDescending(scored)

----------------------------------------------------------------------------
(* _compute_mean_of_medians *)

\* twice np.median of column x of the block at (bi, bj)
TwiceMedian(img, bi, bj, B, x) ==
    LET col == [r \in 1..B |-> img[bi + r - 1][bj + x]]
        kth(k) == CHOOSE v \in {col[r] : r \in 1..B} :
                     /\ Cardinality({r \in 1..B : col[r] < v}) < k
                     /\ Cardinality({r \in 1..B : col[r] <= v}) >= k
    IN  kth(((B - 1) \div 2) + 1) + kth((B \div 2) + 1)

\* Me times 2*B: the sum over the columns of twice the column median
ComputeMeanOfMedians(img, bi, bj, B) ==
    SumOver(0..(B - 1), [x \in 0..(B - 1) |-> TwiceMedian(img, bi, bj, B, x)])

\* Di <= Me
GateOpen(p1, p2, me2B, B) ==
    LET Di == Abs(p1 - p2)
    IN  2 * B * Di <= me2B

----------------------------------------------------------------------------
(* Pixel pairs *)

\* the case table with cases 1 and 2 exchanged
GetEmbeddingCaseSwapped(p1, p2) ==
    LET msb_p1 == Bit(p1, 7)
        msb_p2 == Bit(p2, 7)
    IN  IF msb_p1 = 0 /\ msb_p2 = 0 THEN 0
        ELSE IF msb_p1 = 1 /\ msb_p2 = 0 THEN 2
        ELSE IF msb_p1 = 0 /\ msb_p2 = 1 THEN 1
        ELSE 3

GetEmbeddingCase(p1, p2) ==
    LET msb_p1 == Bit(p1, 7)
        msb_p2 == Bit(p2, 7)
    IN  IF msb_p1 = 0 /\ msb_p2 = 0 THEN 0
        ELSE IF msb_p1 = 1 /\ msb_p2 = 0 THEN 1
        ELSE IF msb_p1 = 0 /\ msb_p2 = 1 THEN 2
        ELSE 3

\* [2, 3, 3, 4][case]
BitsPerPair(case) == <<2, 3, 3, 4>>[case + 1]

\* _embed_bits_in_pixel_pair with the shifts of the two-bit fields off by one
\* (bits 3 and 4 in place of bits 2 and 3)
EmbedBitsShiftedFields(p1, p2, bits) ==
    LET case == GetEmbeddingCase(p1, p2)
    IN  CASE case = 0 ->
               IF Len(bits) >= 2
               THEN <<SetBit(p1, 1, bits[1]), SetBit(p2, 1, bits[2])>>
               ELSE <<p1, p2>>
          [] case = 1 ->
               IF Len(bits) >= 3
               THEN <<SetBit(SetBit(p1, 3, bits[1]), 4, bits[2]), SetBit(p2, 1, bits[3])>>
               ELSE <<p1, p2>>
          [] case = 2 ->
               IF Len(bits) >= 3
               THEN <<SetBit(p1, 1, bits[1]), SetBit(SetBit(p2, 3, bits[2]), 4, bits[3])>>
               ELSE <<p1, p2>>
          [] case = 3 ->
               IF Len(bits) >= 4
               THEN <<SetBit(SetBit(p1, 3, bits[1]), 4, bits[2]),
                      SetBit(SetBit(p2, 3, bits[3]), 4, bits[4])>>
               ELSE <<p1, p2>>

\* _embed_bits_in_pixel_pair with case 0 writing bit 0 in place of bit 1
EmbedBitsIntoLSB(p1, p2, bits) ==
    LET case == GetEmbeddingCase(p1, p2)
    IN  CASE case = 0 ->
               IF Len(bits) >= 2
               THEN <<SetBit(p1, 0, bits[1]), SetBit(p2, 0, bits[2])>>
               ELSE <<p1, p2>>
          [] case = 1 ->
               IF Len(bits) >= 3
               THEN <<SetBit(SetBit(p1, 2, bits[1]), 3, bits[2]), SetBit(p2, 1, bits[3])>>
               ELSE <<p1, p2>>
          [] case = 2 ->
               IF Len(bits) >= 3
               THEN <<SetBit(p1, 1, bits[1]), SetBit(SetBit(p2, 2, bits[2]), 3, bits[3])>>
               ELSE <<p1, p2>>
          [] case = 3 ->
               IF Len(bits) >= 4
               THEN <<SetBit(SetBit(p1, 2, bits[1]), 3, bits[2]),
                      SetBit(SetBit(p2, 2, bits[3]), 3, bits[4])>>
               ELSE <<p1, p2>>

\* _embed_bits_in_pixel_pair: the new <<p1, p2>>
EmbedBitsInPixelPair(p1, p2, bits) ==
    LET case == GetEmbeddingCase(p1, p2)
    IN  CASE case = 0 ->
               IF Len(bits) >= 2
               THEN <<SetBit(p1, 1, bits[1]), SetBit(p2, 1, bits[2])>>
               ELSE <<p1, p2>>
          [] case = 1 ->
               IF Len(bits) >= 3
               THEN <<SetBit(SetBit(p1, 2, bits[1]), 3, bits[2]), SetBit(p2, 1, bits[3])>>
               ELSE <<p1, p2>>
          [] case = 2 ->
               IF Len(bits) >= 3
               THEN <<SetBit(p1, 1, bits[1]), SetBit(SetBit(p2, 2, bits[2]), 3, bits[3])>>
               ELSE <<p1, p2>>
          [] case = 3 ->
               IF Len(bits) >= 4
               THEN <<SetBit(SetBit(p1, 2, bits[1]), 3, bits[2]),
                      SetBit(SetBit(p2, 2, bits[3]), 3, bits[4])>>
               ELSE <<p1, p2>>

\* _extract_bits_from_pixel_pair reading each two-bit field high bit first
ExtractBitsHighFirst(p1, p2) ==
    LET case == GetEmbeddingCase(p1, p2)
    IN  CASE case = 0 -> <<Bit(p1, 1), Bit(p2, 1)>>
          [] case = 1 -> <<Bit(p1, 3), Bit(p1, 2), Bit(p2, 1)>>
          [] case = 2 -> <<Bit(p1, 1), Bit(p2, 3), Bit(p2, 2)>>
          [] case = 3 -> <<Bit(p1, 3), Bit(p1, 2), Bit(p2, 3), Bit(p2, 2)>>

\* _extract_bits_from_pixel_pair
ExtractBitsFromPixelPair(p1, p2) ==
    LET case == GetEmbeddingCase(p1, p2)
    IN  CASE case = 0 -> <<Bit(p1, 1), Bit(p2, 1)>>
          [] case = 1 -> <<Bit(p1, 2), Bit(p1, 3), Bit(p2, 1)>>
          [] case = 2 -> <<Bit(p1, 1), Bit(p2, 2), Bit(p2, 3)>>
          [] case = 3 -> <<Bit(p1, 2), Bit(p1, 3), Bit(p2, 2), Bit(p2, 3)>>


----------------------------------------------------------------------------
(* encode, step by step.  enc.at is the position inside the call. *)

Min(a, b) == IF a <= b THEN a ELSE b

\* the locals before the call starts
EncodeEntry ==
    [at |-> "load", h |-> 0, w |-> 0, gray_image |-> <<>>, stego_image |-> <<>>,
     UB |-> 0, LB |-> 0,
     payload_bits |-> <<>>, payload_len |-> 0,
     bit_idx |-> 0, embedded_bits |-> 0, blocks_used |-> 0,
     block_edge_scores |-> <<>>, k |-> 1, Me |-> 0, i |-> 0, j |-> 0,
     error |-> "",
     gate_log |-> {}]   \* history: <<row, column, gate result>> of every pair visited

\* lines 181-208: load, payload bit string, gray copy, UB and LB
EncodeLoadStep(e, path, bytes) ==
    IF ~FileReadable(path)
    THEN [e EXCEPT !.at = "raised", !.error = "ValueError"]
    ELSE LET image == ImRead(path)
             gray_image == GrayImage(image)
             samples == {gray_image[y][x] : y \in 0..(image.h - 1), x \in 0..(image.w - 1)}
         IN  [e EXCEPT !.at = "header",
                       !.h = image.h, !.w = image.w,
                       !.gray_image = gray_image,
                       !.stego_image = gray_image,
                       !.payload_bits = PayloadBits(bytes),
                       !.payload_len = 8 * Len(bytes),
                       !.UB = CHOOSE v \in samples : \A u \in samples : u <= v,
                       !.LB = CHOOSE v \in samples : \A u \in samples : v <= u]

\* the header bit that lines 215-222 write into column col of row 0
HeaderBit(e, col) ==
    IF col < UBWidth THEN FormatBits(e.UB, UBWidth)[col + 1]
    ELSE IF col < UBWidth + LBWidth THEN FormatBits(e.LB, LBWidth)[col - UBWidth + 1]
    ELSE FormatBits(e.payload_len, LenWidth)[col - UBWidth - LBWidth + 1]

\* the header writes with the row index off: rows 0 and 1 both get the header
WriteHeaderTwoRows(e, img) ==
    [y \in 0..(e.h - 1) |->
        [x \in 0..(e.w - 1) |->
            IF y <= 1 /\ x < HeaderWidth THEN SetBit(img[y][x], 0, HeaderBit(e, x))
            ELSE img[y][x]]]

\* lines 215-222 when every column exists: row 0 with the header in its LSBs
WriteHeader(e, img) ==
    [img EXCEPT ![0] = [x \in 0..(e.w - 1) |->
                          IF x < HeaderWidth THEN SetBit(img[0][x], 0, HeaderBit(e, x))
                          ELSE img[0][x]]]

\* the header step that clips the header to the columns that exist and goes on
EncodeHeaderStepClipped(e) ==
    [e EXCEPT !.at = "sort",
              !.stego_image = [e.stego_image EXCEPT ![0] =
                  [x \in 0..(e.w - 1) |->
                      IF x < HeaderWidth THEN SetBit(e.stego_image[0][x], 0, HeaderBit(e, x))
                      ELSE e.stego_image[0][x]]]]

\* lines 210-222: numpy raises IndexError at the first column >= w
EncodeHeaderStep(e) ==
    IF e.w < HeaderWidth
    THEN [e EXCEPT !.at = "raised", !.error = "IndexError"]
    ELSE [e EXCEPT !.at = "sort", !.stego_image = WriteHeader(e, e.stego_image)]

\* lines 186-187 and 224-241: the edge map is the one of the cover as loaded
\* (cv2.cvtColor of the same image gives the same gray plane as line 197)
EncodeSortStep(e, B) ==
    LET edge_map == ComputeEdgeMap(e.gray_image, e.h, e.w)
    IN  [e EXCEPT !.at = "block", !.k = 1,
                  !.block_edge_scores = BlockEdgeScores(edge_map, e.h, e.w, B)]

\* lines 244-253: the head of the loop over block_edge_scores
EncodeBlockStep(e, B, T) ==
    IF e.k > Len(e.block_edge_scores) THEN [e EXCEPT !.at = "finish"]
    ELSE IF e.bit_idx >= e.payload_len THEN [e EXCEPT !.at = "finish"]
    ELSE LET blk == e.block_edge_scores[e.k]
         IN  IF BelowThreshold(blk.score, B, T) THEN [e EXCEPT !.k = e.k + 1]
             ELSE [e EXCEPT !.Me = ComputeMeanOfMedians(e.stego_image, blk.bi, blk.bj, B),
                            !.i = 0, !.j = 0,
                            !.at = IF 0 < B - 1 THEN "pair" ELSE "block_end"]

\* the row loop with step 1 in place of 2: range(0, BLOCK_SIZE - 1)
NextPairEveryRow(i, j, B, brk) ==
    IF brk \/ j + 1 >= B THEN <<i + 1, 0>> ELSE <<i, j + 1>>

\* the position after iteration (i, j) of the two range loops; brk: the inner
\* loop was left by break
NextPair(i, j, B, brk) ==
    IF brk \/ j + 1 >= B THEN <<i + 2, 0>> ELSE <<i, j + 1>>

\* the pair step counting as embedded only the bits that the pair took in full:
\* a last, partial take advances the cursor but not embedded_bits
EncodePairStepCountsWritten(e, B) ==
    LET blk == e.block_edge_scores[e.k]
        y == blk.bi + e.i
        x == blk.bj + e.j
        brk == e.bit_idx >= e.payload_len
        p1 == e.stego_image[y][x]
        p2 == e.stego_image[y + 1][x]
        open == GateOpen(p1, p2, e.Me, B)
        n == Min(BitsPerPair(GetEmbeddingCase(p1, p2)), e.payload_len - e.bit_idx)
        bits_to_embed == SubSeq(e.payload_bits, e.bit_idx + 1, e.bit_idx + n)
        new == EmbedBitsInPixelPair(p1, p2, bits_to_embed)
        nxt == NextPair(e.i, e.j, B, brk)
        moved == [e EXCEPT !.i = nxt[1], !.j = nxt[2],
                           !.at = IF nxt[1] < B - 1 THEN "pair" ELSE "block_end"]
    IN  IF brk THEN moved
        ELSE IF ~open THEN [moved EXCEPT !.gate_log = @ \cup {<<y, x, FALSE>>}]
        ELSE [moved EXCEPT !.gate_log = @ \cup {<<y, x, TRUE>>},
                           !.bit_idx = e.bit_idx + n,
                           !.embedded_bits =
                               IF n = BitsPerPair(GetEmbeddingCase(p1, p2))
                               THEN e.embedded_bits + n ELSE e.embedded_bits,
                           !.stego_image[y][x] = new[1],
                           !.stego_image[y + 1][x] = new[2]]

\* lines 256-284: one iteration of the body of the pair loops
EncodePairStep(e, B) ==
    LET blk == e.block_edge_scores[e.k]
        y == blk.bi + e.i
        x == blk.bj + e.j
        brk == e.bit_idx >= e.payload_len
        p1 == e.stego_image[y][x]
        p2 == e.stego_image[y + 1][x]
        open == GateOpen(p1, p2, e.Me, B)
        n == Min(BitsPerPair(GetEmbeddingCase(p1, p2)), e.payload_len - e.bit_idx)
        bits_to_embed == SubSeq(e.payload_bits, e.bit_idx + 1, e.bit_idx + n)
        new == EmbedBitsInPixelPair(p1, p2, bits_to_embed)
        nxt == NextPair(e.i, e.j, B, brk)
        moved == [e EXCEPT !.i = nxt[1], !.j = nxt[2],
                           !.at = IF nxt[1] < B - 1 THEN "pair" ELSE "block_end"]
    IN  IF brk THEN moved
        ELSE IF ~open THEN [moved EXCEPT !.gate_log = @ \cup {<<y, x, FALSE>>}]
        ELSE [moved EXCEPT !.gate_log = @ \cup {<<y, x, TRUE>>},
                           !.bit_idx = e.bit_idx + n,
                           !.embedded_bits = e.embedded_bits + n,
                           !.stego_image[y][x] = new[1],
                           !.stego_image[y + 1][x] = new[2]]

\* the end of the block body that leaves the loop index where it is
EncodeBlockEndStepSameBlock(e) ==
    [e EXCEPT !.blocks_used = e.blocks_used + 1, !.at = "block"]

\* line 286
EncodeBlockEndStep(e) ==
    [e EXCEPT !.blocks_used = e.blocks_used + 1, !.k = e.k + 1, !.at = "block"]

\* lines 288-307: the image is saved whether or not every bit was embedded
EncodeFinishStep(e) == [e EXCEPT !.at = "returned"]

\* the metadata dict reporting the payload length as the embedded bits
MetadataAllEmbedded(e) ==
    [UB |-> e.UB, LB |-> e.LB, payload_bits |-> e.payload_len,
     embedded_bits |-> e.payload_len, blocks_used |-> e.blocks_used,
     image_size |-> <<e.h, e.w>>]

\* the metadata dict of lines 299-307 (capacity_bpp is embedded_bits / (h * w))
Metadata(e) ==
    [UB |-> e.UB, LB |-> e.LB, payload_bits |-> e.payload_len,
     embedded_bits |-> e.embedded_bits, blocks_used |-> e.blocks_used,
     image_size |-> <<e.h, e.w>>]

\* one step of encode from any position
EncodeStep(e, path, bytes, B, T) ==
    CASE e.at = "load"      -> EncodeLoadStep(e, path, bytes)
      [] e.at = "header"    -> EncodeHeaderStep(e)
      [] e.at = "sort"      -> EncodeSortStep(e, B)
      [] e.at = "block"     -> EncodeBlockStep(e, B, T)
      [] e.at = "pair"      -> EncodePairStep(e, B)
      [] e.at = "block_end" -> EncodeBlockEndStep(e)
      [] e.at = "finish"    -> EncodeFinishStep(e)
      [] OTHER              -> e

\* 2^n steps of encode, or fewer when the call ends before
RECURSIVE EncodeSteps(_, _, _, _, _, _)
EncodeSteps(e, n, path, bytes, B, T) ==
    IF e.at \in {"returned", "raised"} THEN e
    ELSE IF n = 0 THEN EncodeStep(e, path, bytes, B, T)
    ELSE LET half == EncodeSteps(e, n - 1, path, bytes, B, T)
         IN  EncodeSteps(half, n - 1, path, bytes, B, T)

\* encode run to its end: the locals when the call returns or raises
RECURSIVE EncodeRun(_, _, _, _, _)
EncodeRun(e, path, bytes, B, T) ==
    IF e.at \in {"returned", "raised"} THEN e
    ELSE EncodeRun(EncodeSteps(e, 6, path, bytes, B, T), path, bytes, B, T)

----------------------------------------------------------------------------
(* decode, step by step.  The image is the file encode saved; decode never  *)
(* writes it, so the model reads out_file in place of the local copy.       *)

DecodeEntry ==
    [at |-> "load", h |-> 0, w |-> 0, UB |-> 0, LB |-> 0, payload_len |-> 0,
     block_edge_scores |-> <<>>, k |-> 1, Me |-> 0, i |-> 0, j |-> 0,
     extracted_bits |-> <<>>,
     gate_log |-> {}]   \* history: <<row, column, gate result>> of every pair visited

\* ''.join(str(image[0, first + i] & 1) for i in range(width))
ReadLSBs(img, first, width) == [n \in 1..width |-> Bit(img[0][first + n - 1], 0)]

\* lines 319-338: load the file and read the header; numpy raises IndexError
\* at the first header column that the image does not have
DecodeLoadStep(d, file) ==
    IF file.w < HeaderWidth THEN [d EXCEPT !.at = "raised", !.h = file.h, !.w = file.w]
    ELSE
    [d EXCEPT !.at = "sort", !.h = file.h, !.w = file.w,
              !.UB = ParseBits(ReadLSBs(file.img, 0, UBWidth)),
              !.LB = ParseBits(ReadLSBs(file.img, UBWidth, LBWidth)),
              !.payload_len = ParseBits(ReadLSBs(file.img, UBWidth + LBWidth, LenWidth))]

\* lines 340-352: the edge map is the one of the stego image
DecodeSortStep(d, file, B) ==
    LET edge_map == ComputeEdgeMap(file.img, d.h, d.w)
    IN  [d EXCEPT !.at = "block", !.k = 1,
                  !.block_edge_scores = BlockEdgeScores(edge_map, d.h, d.w, B)]

\* lines 357-364: the head of the loop over block_edge_scores
DecodeBlockStep(d, file, B, T) ==
    IF d.k > Len(d.block_edge_scores) THEN [d EXCEPT !.at = "finish"]
    ELSE IF Len(d.extracted_bits) >= d.payload_len THEN [d EXCEPT !.at = "finish"]
    ELSE LET blk == d.block_edge_scores[d.k]
         IN  IF BelowThreshold(blk.score, B, T) THEN [d EXCEPT !.k = d.k + 1]
             ELSE IF 0 < B - 1
             THEN [d EXCEPT !.Me = ComputeMeanOfMedians(file.img, blk.bi, blk.bj, B),
                            !.i = 0, !.j = 0, !.at = "pair"]
             ELSE [d EXCEPT !.Me = ComputeMeanOfMedians(file.img, blk.bi, blk.bj, B),
                            !.k = d.k + 1]

\* lines 366-380: one iteration of the body of the pair loops; after the last
\* one the block loop goes on with the next block
DecodePairStep(d, file, B) ==
    LET blk == d.block_edge_scores[d.k]
        y == blk.bi + d.i
        x == blk.bj + d.j
        brk == Len(d.extracted_bits) >= d.payload_len
        p1 == file.img[y][x]
        p2 == file.img[y + 1][x]
        open == GateOpen(p1, p2, d.Me, B)
        bits == ExtractBitsFromPixelPair(p1, p2)
        n == Min(Len(bits), d.payload_len - Len(d.extracted_bits))
        nxt == NextPair(d.i, d.j, B, brk)
        moved == IF nxt[1] < B - 1
                 THEN [d EXCEPT !.i = nxt[1], !.j = nxt[2]]
                 ELSE [d EXCEPT !.i = nxt[1], !.j = nxt[2], !.k = d.k + 1, !.at = "block"]
    IN  IF brk THEN moved
        ELSE IF ~open THEN [moved EXCEPT !.gate_log = @ \cup {<<y, x, FALSE>>}]
        ELSE [moved EXCEPT !.gate_log = @ \cup {<<y, x, TRUE>>},
                           !.extracted_bits = @ \o SubSeq(bits, 1, n)]

\* bits to bytes with a trailing group of fewer than 8 bits kept as a byte
PackBytesPadded(bits) ==
    [b \in 1..((Len(bits) + 7) \div 8) |->
        LET last == IF 8 * b <= Len(bits) THEN 8 * b ELSE Len(bits)
        IN  ParseBits(SubSeq(bits, 8 * (b - 1) + 1, last))]

\* lines 384-392: whole bytes only, first bit of each group is bit 7
PackBytes(bits) ==
    [b \in 1..(Len(bits) \div 8) |-> ParseBits(SubSeq(bits, 8 * (b - 1) + 1, 8 * b))]

DecodeFinishStep(d) == [d EXCEPT !.at = "returned"]

\* one step of decode from any position
DecodeStep(d, file, B, T) ==
    CASE d.at = "load"   -> DecodeLoadStep(d, file)
      [] d.at = "sort"   -> DecodeSortStep(d, file, B)
      [] d.at = "block"  -> DecodeBlockStep(d, file, B, T)
      [] d.at = "pair"   -> DecodePairStep(d, file, B)
      [] d.at = "finish" -> DecodeFinishStep(d)
      [] OTHER           -> d

\* 2^n steps of decode, or fewer when the call ends before
RECURSIVE DecodeSteps(_, _, _, _, _)
DecodeSteps(d, n, file, B, T) ==
    IF d.at \in {"returned", "raised"} THEN d
    ELSE IF n = 0 THEN DecodeStep(d, file, B, T)
    ELSE LET half == DecodeSteps(d, n - 1, file, B, T)
         IN  DecodeSteps(half, n - 1, file, B, T)

\* decode run to its end: the locals when the call returns or raises
RECURSIVE DecodeRun(_, _, _, _)
DecodeRun(d, file, B, T) ==
    IF d.at \in {"returned", "raised"} THEN d
    ELSE DecodeRun(DecodeSteps(d, 6, file, B, T), file, B, T)

----------------------------------------------------------------------------
(* The path of the payload through one pixel pair, function by function:    *)
(* bytes to bit string (encode, line 190), the bits taken for the pair at   *)
(* the cursor (268-277), _embed_bits_in_pixel_pair (279-283),               *)
(* _extract_bits_from_pixel_pair on the written pair (377), and the packing *)
(* of the bit string up to the cursor (384-392).                            *)

\* longest payload of the path, in bytes
PipeMaxBytes == 2

PipeIdle ==
    [at |-> "idle", payload_bytes |-> <<>>, payload_bits |-> <<>>, payload_len |-> 0,
     bit_idx |-> 0, p1 |-> 0, p2 |-> 0, bits_to_embed |-> <<>>,
     p1_new |-> 0, p2_new |-> 0, bits |-> <<>>, payload |-> <<>>]

----------------------------------------------------------------------------
(* SteganographyLSB of src/paper_implementation/steno.py.  An image is a     *)
(* function from <<x, y>> to <<r, g, b>>, as PIL's pixel access object.      *)
(* encrypt_message is kept abstract: its result cipher_text is an input, a   *)
(* sequence of code points below 256 (the code embeds base64 text).          *)

\* longest ciphertext, in characters
MaxChars == 3

\* self.PIXELS_PER_CHAR
PIXELS_PER_CHAR == 3

\* the cover images: size and pattern
LsbSizes == {<<3, 1>>, <<2, 2>>, <<4, 2>>, <<3, 3>>, <<5, 2>>}
LsbPatterns == {"zeros", "ones", "mix"}

LsbCoverPixel(pattern, x, y) ==
    CASE pattern = "zeros" -> <<0, 0, 0>>
      [] pattern = "ones"  -> <<255, 255, 255>>
      [] pattern = "mix"   -> <<(x * 37 + y * 11 + 2) % 256,
                                (x * 5 + y * 91 + 1) % 256,
                                ((x + y) * 23 + 128) % 256>>

\* Image.open(image_path).load() of an RGB file
LsbCover(size, pattern) ==
    [c \in (0..(size[1] - 1)) \X (0..(size[2] - 1)) |-> LsbCoverPixel(pattern, c[1], c[2])]

LsbChars == {0, 65, 255}
LsbCipherTexts == SeqsUpTo(LsbChars, MaxChars)

\* the three coordinates from idx on: x = idx % width, y = idx // width
CoordSets(idx, width) ==
    [n \in 1..PIXELS_PER_CHAR |-> <<(idx + n - 1) % width, (idx + n - 1) \div width>>]

\* has_more with the comparison off by one: set for the last character too
HasMoreAlways(i, total_chars) == IF i < total_chars THEN 1 ELSE 0

\* line 84: has_more = 1 if i < (total_chars - 1) else 0    (i is 0-based)
HasMore(i, total_chars) == IF i < total_chars - 1 THEN 1 ELSE 0

\* the capacity test counting characters in place of pixels
ImageTooSmallByChars(required_pixels, total_pixels) ==
    required_pixels \div PIXELS_PER_CHAR > total_pixels

\* line 55: required_pixels > total_pixels
ImageTooSmall(required_pixels, total_pixels) == required_pixels > total_pixels

\* the merge that stores the bit as the whole channel value
LsbMergeCharWholeValue(nine_vals, char, has_more) ==
    LET binary_char == FormatBits(char, 8)
    IN  [b \in 1..9 |-> IF b <= 8 THEN binary_char[b] ELSE has_more]

\* lines 78-89: the nine channel values with the character in the LSBs of the
\* first eight and has_more in the LSB of the ninth
LsbMergeChar(nine_vals, char, has_more) ==
    LET binary_char == FormatBits(char, 8)
    IN  [b \in 1..9 |-> IF b <= 8 THEN SetBit(nine_vals[b], 0, binary_char[b])
                        ELSE SetBit(nine_vals[b], 0, has_more)]

\* the state before anything runs
LsbIdle ==
    [at |-> "idle", size |-> <<0, 0>>, pattern |-> "", cipher_text |-> <<>>,
     width |-> 0, height |-> 0, pixels |-> <<>>, i |-> 0, idx |-> 0,
     error |-> "", file |-> [exists |-> FALSE, width |-> 0, height |-> 0, pixels |-> <<>>],
     dec_idx |-> 0, dec_cipher_text |-> <<>>, dec_visited |-> 0]

\* lines 39-56: open, encrypt, capacity check
LsbEncodeOpenStep(l) ==
    LET width == l.size[1]
        height == l.size[2]
        total_pixels == width * height
        required_pixels == Len(l.cipher_text) * PIXELS_PER_CHAR
        opened == [l EXCEPT !.width = width, !.height = height,
                            !.pixels = LsbCover(l.size, l.pattern)]
    IN  IF ImageTooSmall(required_pixels, total_pixels)
        THEN [opened EXCEPT !.at = "raised", !.error = "ValueError"]
        ELSE [opened EXCEPT !.at = "enc_char", !.i = 0, !.idx = 0]

\* lines 61-93: one iteration of the loop over the characters, or the end of
\* the loop; the pixel access raises IndexError outside the image
LsbEncodeCharStep(l) ==
    IF l.i >= Len(l.cipher_text) THEN [l EXCEPT !.at = "enc_save"]
    ELSE LET coord_sets == CoordSets(l.idx, l.width)
         IN  IF \E n \in 1..PIXELS_PER_CHAR : coord_sets[n][2] >= l.height
             THEN [l EXCEPT !.at = "raised", !.error = "IndexError",
                            !.idx = l.idx + PIXELS_PER_CHAR]
             ELSE LET nine_vals == l.pixels[coord_sets[1]] \o l.pixels[coord_sets[2]]
                                     \o l.pixels[coord_sets[3]]
                      new_vals == LsbMergeChar(nine_vals, l.cipher_text[l.i + 1],
                                               HasMore(l.i, Len(l.cipher_text)))
                  IN  [l EXCEPT !.i = l.i + 1, !.idx = l.idx + PIXELS_PER_CHAR,
                                !.pixels = [l.pixels EXCEPT
                                              ![coord_sets[1]] = SubSeq(new_vals, 1, 3),
                                              ![coord_sets[2]] = SubSeq(new_vals, 4, 6),
                                              ![coord_sets[3]] = SubSeq(new_vals, 7, 9)]]

\* lines 95-101: image.save(output_path)
LsbEncodeSaveStep(l) ==
    [l EXCEPT !.at = "dec_open",
              !.file = [exists |-> TRUE, width |-> l.width, height |-> l.height,
                        pixels |-> l.pixels]]

\* lines 104-112
LsbDecodeOpenStep(l) ==
    [l EXCEPT !.at = "dec_loop", !.dec_idx = 0, !.dec_cipher_text = <<>>, !.dec_visited = 0]

\* lines 114-143: the loop test and one iteration of the while loop
LsbDecodeTripleStep(l) ==
    LET total_pixels == l.file.width * l.file.height
    IN  IF ~(l.dec_idx < total_pixels) \/ l.dec_idx + 3 > total_pixels
        THEN [l EXCEPT !.at = "dec_return"]
        ELSE LET coord_sets == CoordSets(l.dec_idx, l.file.width)
                 nine_vals == l.file.pixels[coord_sets[1]] \o l.file.pixels[coord_sets[2]]
                                \o l.file.pixels[coord_sets[3]]
                 char_code == ParseBits([b \in 1..8 |-> Bit(nine_vals[b], 0)])
                 flag_bit == Bit(nine_vals[9], 0)
             IN  [l EXCEPT !.dec_idx = l.dec_idx + 3,
                           !.dec_cipher_text = Append(l.dec_cipher_text, char_code),
                           !.dec_visited = l.dec_visited + 1,
                           !.at = IF flag_bit = 0 THEN "dec_return" ELSE "dec_loop"]

\* lines 145-149: cipher_text goes to decrypt_message
LsbDecodeReturnStep(l) == [l EXCEPT !.at = "done"]

----------------------------------------------------------------------------
(* EdgeAdaptiveLSB of src/paper_implementation/steno_enhanced.py.  The file  *)
(* is read twice, by PIL (pixels, <<r, g, b>> at <<x, y>>) and by OpenCV     *)
(* (image_cv, <<b, g, r>> at row y, column x); both give the same samples.   *)

EaSizes == {<<4, 3>>, <<5, 4>>, <<6, 3>>}
EaPatterns == {"flat", "step", "mix", "fine"}

\* the RGB value at (x, y) of the cover file
EaCoverPixel(pattern, x, y) ==
    CASE pattern = "flat" -> <<255, 255, 255>>
      [] pattern = "step" -> IF x < 2 THEN <<10, 10, 10>> ELSE <<200, 200, 200>>
      [] pattern = "mix"  -> <<(x * 37 + y * 11 + 2) % 256,
                               (x * 5 + y * 91 + 1) % 256,
                               ((x + y) * 23 + 128) % 256>>
      [] pattern = "fine" -> <<100 + ((x + y) % 2), 100 + ((x * y) % 3), 101 - (x % 2)>>

\* Image.open(image_path).load() of an RGB file
EaCover(size, pattern) ==
    [c \in (0..(size[1] - 1)) \X (0..(size[2] - 1)) |-> EaCoverPixel(pattern, c[1], c[2])]

\* cv2.imread of a file whose PIL pixels are px: rows of <<b, g, r>>
CvImage(px, width, height) ==
    [h |-> height, w |-> width,
     px |-> [y \in 0..(height - 1) |->
               [x \in 0..(width - 1) |-> <<px[<<x, y>>][3], px[<<x, y>>][2], px[<<x, y>>][1]>>]]]

\* the image as it is, with no bit masked
ImageUnmasked(image_cv) == image_cv

\* line 65: image_stable = (image_cv & 0xFE).astype(np.uint8)
ImageStable(image_cv) ==
    [image_cv EXCEPT !.px =
        [y \in 0..(image_cv.h - 1) |->
            [x \in 0..(image_cv.w - 1) |->
                [ch \in 1..3 |-> SetBit(image_cv.px[y][x][ch], 0, 0)]]]]

\* compute_sobel_gradient: magnitudes in units of 1/SqrtScale
ComputeSobelGradient(image_cv) ==
    LET gray == GrayImage(ImageStable(image_cv))
    IN  SubSeq([r \in 1..image_cv.h |->
                  SubSeq([c \in 1..image_cv.w |->
                            SobelMagnitude(SobelX(gray, image_cv.h, image_cv.w, r - 1, c - 1),
                                           SobelY(gray, image_cv.h, image_cv.w, r - 1, c - 1))],
                         1, image_cv.w)], 1, image_cv.h)

\* compute_mean_gradient times the number of pixels: the sum of the map
GradientSum(gradient_map, width, height) ==
    SumOver(1..height, [r \in 1..height |-> SumOver(1..width, gradient_map[r])])

\* generate_embeddable_mask at (x, y): gradient_map <= mean_gradient
Embeddable(gradient_map, gradient_sum, width, height, x, y) ==
    gradient_map[y + 1][x + 1] * (width * height) <= gradient_sum

\* get_embeddable_pixel_coords: the <<x, y>> with mask[y, x], row by row
EmbeddableCoords(image_cv) ==
    LET width == image_cv.w
        height == image_cv.h
        gradient_map == ComputeSobelGradient(image_cv)
        gradient_sum == GradientSum(gradient_map, width, height)
        all == [n \in 1..(width * height) |-> <<(n - 1) % width, (n - 1) \div width>>]
    IN  SelectSeq(all, LAMBDA c :
                         Embeddable(gradient_map, gradient_sum, width, height, c[1], c[2]))

\* the state before anything runs
EaIdle ==
    [at |-> "idle", size |-> <<0, 0>>, pattern |-> "", cipher_text |-> <<>>,
     width |-> 0, height |-> 0, pixels |-> <<>>, embeddable_coords |-> <<>>,
     i |-> 0, coord_idx |-> 0, error |-> "",
     file |-> [exists |-> FALSE, width |-> 0, height |-> 0, pixels |-> <<>>],
     dec_embeddable_coords |-> <<>>, dec_coord_idx |-> 0, dec_cipher_text |-> <<>>]

\* lines 195-237: load, encrypt, gradient, mask, coordinates, capacity check
EaEncodeOpenStep(e) ==
    LET width == e.size[1]
        height == e.size[2]
        pixels == EaCover(e.size, e.pattern)
        embeddable_coords == EmbeddableCoords(CvImage(pixels, width, height))
        required_pixels == Len(e.cipher_text) * PIXELS_PER_CHAR
        opened == [e EXCEPT !.width = width, !.height = height, !.pixels = pixels,
                            !.embeddable_coords = embeddable_coords]
    IN  IF required_pixels > Len(embeddable_coords)
        THEN [opened EXCEPT !.at = "raised", !.error = "ValueError"]
        ELSE [opened EXCEPT !.at = "enc_char", !.i = 0, !.coord_idx = 0]

\* lines 239-274: one iteration of the loop over the characters, or its end
EaEncodeCharStep(e) ==
    IF e.i >= Len(e.cipher_text) THEN [e EXCEPT !.at = "enc_save"]
    ELSE LET p1_coord == e.embeddable_coords[e.coord_idx + 1]
             p2_coord == e.embeddable_coords[e.coord_idx + 2]
             p3_coord == e.embeddable_coords[e.coord_idx + 3]
             nine_vals == e.pixels[p1_coord] \o e.pixels[p2_coord] \o e.pixels[p3_coord]
             new_vals == LsbMergeChar(nine_vals, e.cipher_text[e.i + 1],
                                      HasMore(e.i, Len(e.cipher_text)))
         IN  [e EXCEPT !.i = e.i + 1, !.coord_idx = e.coord_idx + 3,
                       !.pixels = [e.pixels EXCEPT
                                     ![p1_coord] = SubSeq(new_vals, 1, 3),
                                     ![p2_coord] = SubSeq(new_vals, 4, 6),
                                     ![p3_coord] = SubSeq(new_vals, 7, 9)]]

\* lines 276-292: image_pil.save(output_path, 'PNG')
EaEncodeSaveStep(e) ==
    [e EXCEPT !.at = "dec_open",
              !.file = [exists |-> TRUE, width |-> e.width, height |-> e.height,
                        pixels |-> e.pixels]]

\* lines 310-333: load the stego image, recompute the coordinates
EaDecodeOpenStep(e) ==
    [e EXCEPT !.at = "dec_loop", !.dec_coord_idx = 0, !.dec_cipher_text = <<>>,
              !.dec_embeddable_coords =
                  EmbeddableCoords(CvImage(e.file.pixels, e.file.width, e.file.height))]

\* lines 335-364: the loop test and one iteration of the while loop
EaDecodeTripleStep(e) ==
    IF ~(e.dec_coord_idx + 3 <= Len(e.dec_embeddable_coords))
    THEN [e EXCEPT !.at = "dec_return"]
    ELSE LET p1_coord == e.dec_embeddable_coords[e.dec_coord_idx + 1]
             p2_coord == e.dec_embeddable_coords[e.dec_coord_idx + 2]
             p3_coord == e.dec_embeddable_coords[e.dec_coord_idx + 3]
             nine_vals == e.file.pixels[p1_coord] \o e.file.pixels[p2_coord]
                            \o e.file.pixels[p3_coord]
             char_code == ParseBits([b \in 1..8 |-> Bit(nine_vals[b], 0)])
             flag_bit == Bit(nine_vals[9], 0)
         IN  [e EXCEPT !.dec_coord_idx = e.dec_coord_idx + 3,
                       !.dec_cipher_text = Append(e.dec_cipher_text, char_code),
                       !.at = IF flag_bit = 0 THEN "dec_return" ELSE "dec_loop"]

\* lines 366-371: cipher_text goes to decrypt_message
EaDecodeReturnStep(e) == [e EXCEPT !.at = "done"]

----------------------------------------------------------------------------
(* metricscalc.py: calculate_mse, calculate_psnr,                            *)
(* calculate_histogram_deviation on gray images.  The metrics flatten the    *)
(* images, so an image is the sequence of its samples.  Real values are kept *)
(* exactly: the MSE as sum of squares and sample count, the PSNR as the      *)
(* ratio MAX^2 / MSE whose log10 it is ten times.                            *)

\* most samples of an image
MetMaxPixels == 3

\* fixed-point scale of the chi-square distance
ChiScale == 100000

\* MAX = 255.0
PsnrMax == 255

MetSamples == {0, 1, 255}

\* calculate_mse: np.mean((original - stego) ** 2) as <<sum, count>>
CalculateMse(original, stego) ==
    [sse |-> SumOver(1..Len(original),
                     [k \in 1..Len(original) |->
                         (original[k] - stego[k]) * (original[k] - stego[k])]),
     n |-> Len(original)]

\* the test for an infinite PSNR as mse < 1
PsnrInfiniteBelowOne(mse) == mse.sse < mse.n

\* line 18: mse == 0
PsnrIsInfinite(mse) == mse.sse = 0

\* calculate_psnr: float('inf'), or 10 * log10(ratio[1] / ratio[2])
CalculatePsnr(original, stego) ==
    LET mse == CalculateMse(original, stego)
    IN  IF PsnrIsInfinite(mse) THEN [inf |-> TRUE, ratio |-> <<0, 1>>]
        ELSE [inf |-> FALSE, ratio |-> <<PsnrMax * PsnrMax * mse.n, mse.sse>>]

\* calculate_histogram_deviation in units of 1/ChiScale, rounded down per bin;
\* HistogramAt is np.histogram(image.flatten(), bins=256, range=(0, 256)).
\* A bin that is empty in both histograms adds 0 / 1e-10 = 0 and is left out;
\* in the other bins 1e-10 is far below the sum of the two frequencies.
CalculateHistogramDeviation(original, stego) ==
    LET n == Len(original)
        m == Len(stego)
        HistogramAt(image, v) == Cardinality({k \in 1..Len(image) : image[k] = v})
        bins == {original[k] : k \in 1..n} \cup {stego[k] : k \in 1..m}
        term == [v \in bins |->
                    LET a == HistogramAt(original, v) * m - HistogramAt(stego, v) * n
                        b == HistogramAt(original, v) * m + HistogramAt(stego, v) * n
                    IN  (a * a * ChiScale) \div (n * m * b)]
    IN  SumOver(bins, term)

MetIdle ==
    [at |-> "idle", original |-> <<>>, stego |-> <<>>,
     mse |-> [sse |-> 0, n |-> 0], psnr |-> [inf |-> FALSE, ratio |-> <<0, 1>>],
     histogram_deviation |-> 0]

----------------------------------------------------------------------------
(* RSAnalysis of src/steganalysis.py.  pixels is the flattened gray plane.   *)

\* most samples of the flattened image
RsMaxPixels == 4

RsSamples == {0, 1, 2, 3}
RsMaskSizes == {2, 3}

\* _flip_lsb on one sample: pixels ^ 1
FlipLsb(v) == IF v % 2 = 0 THEN v + 1 ELSE v - 1

\* _apply_mask_positive
ApplyMaskPositive(group) == [k \in 1..Len(group) |-> FlipLsb(group[k])]

\* the negative mask on the odd indices 1, 3, ...
ApplyMaskNegativeOdd(group) ==
    [k \in 1..Len(group) |-> IF (k - 1) % 2 = 1 THEN FlipLsb(group[k]) ELSE group[k]]

\* _apply_mask_negative: result[::2] flipped (0-based indices 0, 2, ...)
ApplyMaskNegative(group) ==
    [k \in 1..Len(group) |-> IF (k - 1) % 2 = 0 THEN FlipLsb(group[k]) ELSE group[k]]

\* _calculate_smoothness
CalculateSmoothness(group) ==
    IF Len(group) < 2 THEN 0
    ELSE SumOver(1..(Len(group) - 1),
                 [k \in 1..(Len(group) - 1) |-> Abs(group[k + 1] - group[k])])

\* _classify_group
ClassifyGroup(group, masked_group) ==
    LET f_original == CalculateSmoothness(group)
        f_masked == CalculateSmoothness(masked_group)
    IN  IF f_masked > f_original THEN "S"
        ELSE IF f_masked < f_original THEN "R"
        ELSE "U"

RsIdle ==
    [at |-> "idle", pixels |-> <<>>, mask_size |-> 2, i |-> 0,
     RM |-> 0, SM |-> 0, RN |-> 0, SN |-> 0, total_groups |-> 0,
     result |-> [RM |-> <<0, 1>>, SM |-> <<0, 1>>, RN |-> <<0, 1>>, SN |-> <<0, 1>>,
                 embedding_rate_estimate |-> <<0, 1>>, stego_detected |-> FALSE,
                 total_groups |-> 0]]

\* lines 99-120: one iteration of the loop over the groups, or its end
RsGroupStep(r) ==
    IF ~(r.i < Len(r.pixels) - r.mask_size + 1) THEN [r EXCEPT !.at = "normalize"]
    ELSE LET group == SubSeq(r.pixels, r.i + 1, r.i + r.mask_size)
             classification_pos == ClassifyGroup(group, ApplyMaskPositive(group))
             classification_neg == ClassifyGroup(group, ApplyMaskNegative(group))
         IN  [r EXCEPT !.RM = IF classification_pos = "R" THEN @ + 1 ELSE @,
                       !.SM = IF classification_pos = "S" THEN @ + 1 ELSE @,
                       !.RN = IF classification_neg = "R" THEN @ + 1 ELSE @,
                       !.SN = IF classification_neg = "S" THEN @ + 1 ELSE @,
                       !.total_groups = @ + 1,
                       !.i = r.i + r.mask_size]

\* lines 122-153: normalise, estimate, decide.  With t groups d_R is
\* (RM - RN) / t and d_S is (SM - SN) / t, so the denominator is (a + b) / t
\* with a = |RM - RN|, b = |SM - SN|, and the rate, where taken, is a / (a + b).
\* Fractions are <<numerator, denominator>>.
RsResultStep(r) ==
    LET t == r.total_groups
        RsNorm(count, total_groups) ==
            IF total_groups > 0 THEN <<count, total_groups>> ELSE <<0, 1>>
        a == Abs(r.RM - r.RN)
        b == Abs(r.SM - r.SN)
        large == t > 0 /\ 1000 * (a + b) > t
        rate == IF large THEN <<a, a + b>> ELSE <<0, 1>>
    IN  [r EXCEPT !.at = "done",
                  !.result = [RM |-> RsNorm(r.RM, t), SM |-> RsNorm(r.SM, t),
                              RN |-> RsNorm(r.RN, t), SN |-> RsNorm(r.SN, t),
                              embedding_rate_estimate |-> rate,
                              stego_detected |-> 10 * rate[1] > rate[2],
                              total_groups |-> t]]

----------------------------------------------------------------------------
(* The state machine: encode(cover_image_path, output_path, payload_bytes),  *)
(* then decode(output_path) on the same instance.                            *)

BlockSizes == {2, 3, 4, 8}
Thresholds == {0, 10, 30}
PayloadByteValues == {90, 255}

Payloads == SeqsUpTo(PayloadByteValues, MaxPayloadBytes)

NoFile == [exists |-> FALSE, h |-> 0, w |-> 0, img |-> <<>>]
NoMetadata == [UB |-> 0, LB |-> 0, payload_bits |-> 0, embedded_bits |-> 0,
               blocks_used |-> 0, image_size |-> <<0, 0>>]

Init ==
    /\ pc = "encode"
    /\ cover_image_path \in CoverPaths
    /\ payload_bytes \in Payloads
    /\ BLOCK_SIZE \in BlockSizes
    /\ EDGE_THRESHOLD \in Thresholds
    /\ enc = EncodeEntry
    /\ out_file = NoFile
    /\ enc_ret = [status |-> "running", error |-> "", metadata |-> NoMetadata]
    /\ dec = DecodeEntry
    /\ dec_ret = [status |-> "running", bytes |-> <<>>]
    /\ lsb = LsbIdle
    /\ ea = EaIdle
    /\ met = MetIdle
    /\ rs = RsIdle
    /\ pipe = PipeIdle

Params == <<cover_image_path, payload_bytes, BLOCK_SIZE, EDGE_THRESHOLD>>

EncodeLoad ==
    /\ pc = "encode" /\ enc.at = "load"
    /\ enc' = EncodeLoadStep(enc, cover_image_path, payload_bytes)
    /\ UNCHANGED <<pc, Params, out_file, enc_ret, dec, dec_ret>>
    /\ UNCHANGED NotAdaptive

EncodeHeader ==
    /\ pc = "encode" /\ enc.at = "header"
    /\ enc' = EncodeHeaderStep(enc)
    /\ UNCHANGED <<pc, Params, out_file, enc_ret, dec, dec_ret>>
    /\ UNCHANGED NotAdaptive

EncodeSort ==
    /\ pc = "encode" /\ enc.at = "sort"
    /\ enc' = EncodeSortStep(enc, BLOCK_SIZE)
    /\ UNCHANGED <<pc, Params, out_file, enc_ret, dec, dec_ret>>
    /\ UNCHANGED NotAdaptive

EncodeBlock ==
    /\ pc = "encode" /\ enc.at = "block"
    /\ enc' = EncodeBlockStep(enc, BLOCK_SIZE, EDGE_THRESHOLD)
    /\ UNCHANGED <<pc, Params, out_file, enc_ret, dec, dec_ret>>
    /\ UNCHANGED NotAdaptive

EncodePair ==
    /\ pc = "encode" /\ enc.at = "pair"
    /\ enc' = EncodePairStep(enc, BLOCK_SIZE)
    /\ UNCHANGED <<pc, Params, out_file, enc_ret, dec, dec_ret>>
    /\ UNCHANGED NotAdaptive

EncodeBlockEnd ==
    /\ pc = "encode" /\ enc.at = "block_end"
    /\ enc' = EncodeBlockEndStep(enc)
    /\ UNCHANGED <<pc, Params, out_file, enc_ret, dec, dec_ret>>
    /\ UNCHANGED NotAdaptive

\* cv2.imwrite(output_path, stego_image); return metadata
EncodeFinish ==
    /\ pc = "encode" /\ enc.at = "finish"
    /\ enc' = EncodeFinishStep(enc)
    /\ out_file' = [exists |-> TRUE, h |-> enc.h, w |-> enc.w, img |-> enc.stego_image]
    /\ enc_ret' = [status |-> "returned", error |-> "", metadata |-> Metadata(enc)]
    /\ pc' = "decode"
    /\ UNCHANGED <<Params, dec, dec_ret>>
    /\ UNCHANGED NotAdaptive

\* the exception leaves encode: nothing is saved
EncodeRaise ==
    /\ pc = "encode" /\ enc.at = "raised"
    /\ enc_ret' = [status |-> "raised", error |-> enc.error, metadata |-> NoMetadata]
    /\ pc' = "done"
    /\ UNCHANGED <<Params, enc, out_file, dec, dec_ret>>
    /\ UNCHANGED NotAdaptive

DecodeLoad ==
    /\ pc = "decode" /\ dec.at = "load" /\ out_file.exists
    /\ dec' = DecodeLoadStep(dec, out_file)
    /\ IF dec'.at = "raised"
       THEN pc' = "done" /\ dec_ret' = [status |-> "raised", bytes |-> <<>>]
       ELSE UNCHANGED <<pc, dec_ret>>
    /\ UNCHANGED <<Params, enc, out_file, enc_ret>>
    /\ UNCHANGED NotAdaptive

DecodeSort ==
    /\ pc = "decode" /\ dec.at = "sort"
    /\ dec' = DecodeSortStep(dec, out_file, BLOCK_SIZE)
    /\ UNCHANGED <<pc, Params, enc, out_file, enc_ret, dec_ret>>
    /\ UNCHANGED NotAdaptive

DecodeBlock ==
    /\ pc = "decode" /\ dec.at = "block"
    /\ dec' = DecodeBlockStep(dec, out_file, BLOCK_SIZE, EDGE_THRESHOLD)
    /\ UNCHANGED <<pc, Params, enc, out_file, enc_ret, dec_ret>>
    /\ UNCHANGED NotAdaptive

DecodePair ==
    /\ pc = "decode" /\ dec.at = "pair"
    /\ dec' = DecodePairStep(dec, out_file, BLOCK_SIZE)
    /\ UNCHANGED <<pc, Params, enc, out_file, enc_ret, dec_ret>>
    /\ UNCHANGED NotAdaptive

DecodeFinish ==
    /\ pc = "decode" /\ dec.at = "finish"
    /\ dec' = DecodeFinishStep(dec)
    /\ dec_ret' = [status |-> "returned", bytes |-> PackBytes(dec.extracted_bits)]
    /\ pc' = "done"
    /\ UNCHANGED <<Params, enc, out_file, enc_ret>>
    /\ UNCHANGED NotAdaptive

Next ==
    \/ EncodeLoad
    \/ EncodeHeader
    \/ EncodeSort
    \/ EncodeBlock
    \/ EncodePair
    \/ EncodeBlockEnd
    \/ EncodeFinish
    \/ EncodeRaise
    \/ DecodeLoad
    \/ DecodeSort
    \/ DecodeBlock
    \/ DecodePair
    \/ DecodeFinish

Spec == Init /\ [][Next]_vars


----------------------------------------------------------------------------
(* The state machine of SteganographyLSB: encode(image_path, output_path,    *)
(* secret_text, password), then decode(output_path, password).               *)

\* the adaptive codec is not running
AdaptiveIdle ==
    /\ pc = "idle"
    /\ cover_image_path = "missing"
    /\ payload_bytes = <<>>
    /\ BLOCK_SIZE = 8
    /\ EDGE_THRESHOLD = 30
    /\ enc = EncodeEntry
    /\ out_file = NoFile
    /\ enc_ret = [status |-> "running", error |-> "", metadata |-> NoMetadata]
    /\ dec = DecodeEntry
    /\ dec_ret = [status |-> "running", bytes |-> <<>>]

InitLSB ==
    /\ AdaptiveIdle
    /\ ea = EaIdle
    /\ met = MetIdle
    /\ rs = RsIdle
    /\ pipe = PipeIdle
    /\ \E size \in LsbSizes, pattern \in LsbPatterns, text \in LsbCipherTexts :
          lsb = [LsbIdle EXCEPT !.at = "enc_open", !.size = size, !.pattern = pattern,
                                !.cipher_text = text]

LsbEncodeOpen ==
    /\ lsb.at = "enc_open"
    /\ lsb' = LsbEncodeOpenStep(lsb)
    /\ UNCHANGED NotLsb

LsbEncodeChar ==
    /\ lsb.at = "enc_char"
    /\ lsb' = LsbEncodeCharStep(lsb)
    /\ UNCHANGED NotLsb

LsbEncodeSave ==
    /\ lsb.at = "enc_save"
    /\ lsb' = LsbEncodeSaveStep(lsb)
    /\ UNCHANGED NotLsb

LsbDecodeOpen ==
    /\ lsb.at = "dec_open"
    /\ lsb' = LsbDecodeOpenStep(lsb)
    /\ UNCHANGED NotLsb

LsbDecodeTriple ==
    /\ lsb.at = "dec_loop"
    /\ lsb' = LsbDecodeTripleStep(lsb)
    /\ UNCHANGED NotLsb

LsbDecodeReturn ==
    /\ lsb.at = "dec_return"
    /\ lsb' = LsbDecodeReturnStep(lsb)
    /\ UNCHANGED NotLsb

NextLSB ==
    \/ LsbEncodeOpen
    \/ LsbEncodeChar
    \/ LsbEncodeSave
    \/ LsbDecodeOpen
    \/ LsbDecodeTriple
    \/ LsbDecodeReturn

SpecLSB == InitLSB /\ [][NextLSB]_vars

----------------------------------------------------------------------------
(* The state machine of EdgeAdaptiveLSB: encode(image_path, output_path,     *)
(* secret_text, password), then decode(output_path, password).               *)

InitEA ==
    /\ AdaptiveIdle
    /\ lsb = LsbIdle
    /\ met = MetIdle
    /\ rs = RsIdle
    /\ pipe = PipeIdle
    /\ \E size \in EaSizes, pattern \in EaPatterns, text \in LsbCipherTexts :
          ea = [EaIdle EXCEPT !.at = "enc_open", !.size = size, !.pattern = pattern,
                              !.cipher_text = text]

EaEncodeOpen ==
    /\ ea.at = "enc_open"
    /\ ea' = EaEncodeOpenStep(ea)
    /\ UNCHANGED NotEa

EaEncodeChar ==
    /\ ea.at = "enc_char"
    /\ ea' = EaEncodeCharStep(ea)
    /\ UNCHANGED NotEa

EaEncodeSave ==
    /\ ea.at = "enc_save"
    /\ ea' = EaEncodeSaveStep(ea)
    /\ UNCHANGED NotEa

EaDecodeOpen ==
    /\ ea.at = "dec_open"
    /\ ea' = EaDecodeOpenStep(ea)
    /\ UNCHANGED NotEa

EaDecodeTriple ==
    /\ ea.at = "dec_loop"
    /\ ea' = EaDecodeTripleStep(ea)
    /\ UNCHANGED NotEa

EaDecodeReturn ==
    /\ ea.at = "dec_return"
    /\ ea' = EaDecodeReturnStep(ea)
    /\ UNCHANGED NotEa

NextEA ==
    \/ EaEncodeOpen
    \/ EaEncodeChar
    \/ EaEncodeSave
    \/ EaDecodeOpen
    \/ EaDecodeTriple
    \/ EaDecodeReturn

SpecEA == InitEA /\ [][NextEA]_vars

----------------------------------------------------------------------------
(* The metrics of one pair of images, in the order comprehensive_evaluation  *)
(* calls them.                                                               *)

InitMetrics ==
    /\ AdaptiveIdle
    /\ lsb = LsbIdle
    /\ ea = EaIdle
    /\ rs = RsIdle
    /\ pipe = PipeIdle
    /\ \E original \in SeqsUpTo(MetSamples, MetMaxPixels),
          stego \in SeqsUpTo(MetSamples, MetMaxPixels) :
          /\ Len(original) >= 1
          /\ Len(original) = Len(stego)
          /\ met = [MetIdle EXCEPT !.at = "mse", !.original = original, !.stego = stego]

MetMse ==
    /\ met.at = "mse"
    /\ met' = [met EXCEPT !.at = "psnr", !.mse = CalculateMse(met.original, met.stego)]
    /\ UNCHANGED NotMet

MetPsnr ==
    /\ met.at = "psnr"
    /\ met' = [met EXCEPT !.at = "histogram",
                          !.psnr = CalculatePsnr(met.original, met.stego)]
    /\ UNCHANGED NotMet

MetHistogramDeviation ==
    /\ met.at = "histogram"
    /\ met' = [met EXCEPT !.at = "done",
                          !.histogram_deviation =
                              CalculateHistogramDeviation(met.original, met.stego)]
    /\ UNCHANGED NotMet

NextMetrics ==
    \/ MetMse
    \/ MetPsnr
    \/ MetHistogramDeviation

SpecMetrics == InitMetrics /\ [][NextMetrics]_vars

----------------------------------------------------------------------------
(* One call of RSAnalysis(mask_size).analyze on a readable image.            *)

InitRS ==
    /\ AdaptiveIdle
    /\ lsb = LsbIdle
    /\ ea = EaIdle
    /\ met = MetIdle
    /\ pipe = PipeIdle
    /\ \E pixels \in SeqsUpTo(RsSamples, RsMaxPixels), mask_size \in RsMaskSizes :
          rs = [RsIdle EXCEPT !.at = "group", !.pixels = pixels, !.mask_size = mask_size]

RsGroup ==
    /\ rs.at = "group"
    /\ rs' = RsGroupStep(rs)
    /\ UNCHANGED NotRs

RsResult ==
    /\ rs.at = "normalize"
    /\ rs' = RsResultStep(rs)
    /\ UNCHANGED NotRs

NextRS ==
    \/ RsGroup
    \/ RsResult

SpecRS == InitRS /\ [][NextRS]_vars

----------------------------------------------------------------------------
(* One payload, one cursor position and one pixel pair through the functions *)
(* of the adaptive codec.                                                    *)

InitPipe ==
    /\ AdaptiveIdle
    /\ lsb = LsbIdle
    /\ ea = EaIdle
    /\ met = MetIdle
    /\ rs = RsIdle
    /\ LET \* the strings 0x09 0xAF and 0xAF 0x09 hold every four-bit window
           PipeByteValues == {9, 175}
           \* samples with every setting of bit 7 and several of bits 0..3
           PipeSamples == {v + m : v \in {1, 5, 10, 14}, m \in {0, 112, 128, 240}}
       IN
       \E bytes \in SeqsUpTo(PipeByteValues, PipeMaxBytes), p1 \in PipeSamples,
          p2 \in PipeSamples, bit_idx \in 0..(8 * PipeMaxBytes) :
          /\ bit_idx < 8 * Len(bytes) \/ bit_idx = 0
          /\ pipe = [PipeIdle EXCEPT !.at = "format", !.payload_bytes = bytes,
                                     !.bit_idx = bit_idx, !.p1 = p1, !.p2 = p2]

\* lines 189-191
PipeFormat ==
    /\ pipe.at = "format"
    /\ pipe' = [pipe EXCEPT !.at = "take",
                            !.payload_bits = PayloadBits(pipe.payload_bytes),
                            !.payload_len = 8 * Len(pipe.payload_bytes)]
    /\ UNCHANGED NotPipe

\* lines 258-277: break when the cursor is at the end, else take the bits
PipeTake ==
    /\ pipe.at = "take"
    /\ pipe' = IF pipe.bit_idx >= pipe.payload_len THEN [pipe EXCEPT !.at = "pack"]
               ELSE LET case == GetEmbeddingCase(pipe.p1, pipe.p2)
                        n == Min(BitsPerPair(case), pipe.payload_len - pipe.bit_idx)
                    IN  [pipe EXCEPT !.at = "embed",
                                     !.bits_to_embed =
                                         SubSeq(pipe.payload_bits, pipe.bit_idx + 1,
                                                pipe.bit_idx + n),
                                     !.bit_idx = pipe.bit_idx + n]
    /\ UNCHANGED NotPipe

\* lines 279-283
PipeEmbed ==
    /\ pipe.at = "embed"
    /\ LET new == EmbedBitsInPixelPair(pipe.p1, pipe.p2, pipe.bits_to_embed)
       IN  pipe' = [pipe EXCEPT !.at = "extract", !.p1_new = new[1], !.p2_new = new[2]]
    /\ UNCHANGED NotPipe

\* line 377 on the pair as written
PipeExtract ==
    /\ pipe.at = "extract"
    /\ pipe' = [pipe EXCEPT !.at = "pack",
                            !.bits = ExtractBitsFromPixelPair(pipe.p1_new, pipe.p2_new)]
    /\ UNCHANGED NotPipe

\* lines 384-392 on the bit string up to the cursor
PipePack ==
    /\ pipe.at = "pack"
    /\ pipe' = [pipe EXCEPT !.at = "done",
                            !.payload = PackBytes(SubSeq(pipe.payload_bits, 1, pipe.bit_idx))]
    /\ UNCHANGED NotPipe

NextPipe ==
    \/ PipeFormat
    \/ PipeTake
    \/ PipeEmbed
    \/ PipeExtract
    \/ PipePack

SpecPipe == InitPipe /\ [][NextPipe]_vars

----------------------------------------------------------------------------
(* The walks run to their end.  Each call is one sequential thread: a step   *)
(* that can be taken is taken, which is the weak fairness of the next-state  *)
(* relation.  Besides encode followed by decode of its file, decode is       *)
(* started on files that encode did not write: the adaptive decode on the    *)
(* gray plane of a cover, whose header LSBs are whatever the cover holds     *)
(* (but for the top bit of the length, cleared: a length below 2^31), and    *)
(* SteganographyLSB.decode on a cover, which in the pattern "ones" has no 0  *)
(* continuation flag.                                                        *)

InitTermination ==
    \/ Init
    \/ InitLSB
    \/ /\ pc = "decode"
       /\ cover_image_path \in CoverPaths \ {"missing"}
       /\ payload_bytes = <<>>
       /\ BLOCK_SIZE \in BlockSizes
       /\ EDGE_THRESHOLD \in Thresholds
       /\ enc = EncodeEntry
       /\ out_file = [exists |-> TRUE, h |-> CoverHeight(cover_image_path),
                      w |-> CoverWidth(cover_image_path),
                      img |-> LET gray == GrayImage(ImRead(cover_image_path))
                              IN  IF CoverWidth(cover_image_path) > UBWidth + LBWidth
                                  THEN [gray EXCEPT ![0][UBWidth + LBWidth] = SetBit(@, 0, 0)]
                                  ELSE gray]
       /\ enc_ret = [status |-> "not_called", error |-> "", metadata |-> NoMetadata]
       /\ dec = DecodeEntry
       /\ dec_ret = [status |-> "running", bytes |-> <<>>]
       /\ lsb = LsbIdle
       /\ ea = EaIdle
       /\ met = MetIdle
       /\ rs = RsIdle
       /\ pipe = PipeIdle
    \/ /\ AdaptiveIdle
       /\ ea = EaIdle
       /\ met = MetIdle
       /\ rs = RsIdle
       /\ pipe = PipeIdle
       /\ \E size \in LsbSizes, pattern \in LsbPatterns :
             lsb = [LsbIdle EXCEPT !.at = "dec_open", !.size = size, !.pattern = pattern,
                                   !.file = [exists |-> TRUE, width |-> size[1],
                                             height |-> size[2],
                                             pixels |-> LsbCover(size, pattern)]]

NextTermination ==
    \/ Next
    \/ NextLSB

\* Weak fairness of NextTermination, written out: WF_vars(A) is
\* []<>~ENABLED <<A>>_vars \/ []<><<A>>_vars.  A step is enabled exactly while
\* a call is running (a position other than idle, done and raised), and under
\* [][NextTermination]_vars every step that changes vars is a step of
\* NextTermination.
SpecTermination ==
    /\ InitTermination
    /\ [][NextTermination]_vars
    /\ \/ []<>(pc \in {"idle", "done"} /\ lsb.at \in {"idle", "done", "raised"})
       \/ []<><<TRUE>>_vars

----------------------------------------------------------------------------
(* Definitions shared by the properties *)

\* the gray plane of the cover file, as encode derives it
CoverGray == GrayImage(ImRead(cover_image_path))

\* encode has loaded the cover and holds a stego buffer
EncodeHasBuffer == enc.at \notin {"load", "raised"}

\* encode has returned: the file is saved and the metadata is known
EncodeReturned == enc_ret.status = "returned"

\* the state right after encode returned, before decode starts
JustReturned == pc = "decode" /\ dec.at = "load"

\* decode has read the header
DecodeHasHeader == pc \in {"decode", "done"} /\ dec.at # "load"

\* decode has sorted the blocks
DecodeHasOrder == pc \in {"decode", "done"} /\ dec.at \notin {"load", "sort"}

\* the blocks of a sorted list that pass the threshold, as <<bi, bj>>, in list order
EligibleSequence(scores, B, T) ==
    LET keep == SelectSeq(scores, LAMBDA r : ~BelowThreshold(r.score, B, T))
    IN  [k \in 1..Len(keep) |-> <<keep[k].bi, keep[k].bj>>]

\* the decoder's gate for the pair whose upper pixel is (y, x): Me is the one of
\* the tile of img that holds the pair
GateOnImage(img, y, x, B) ==
    GateOpen(img[y][x], img[y + 1][x],
             ComputeMeanOfMedians(img, (y \div B) * B, (x \div B) * B, B), B)

\* the pairs of one block in walk order, as <<row, column>> of the upper pixel
BlockPairs(bi, bj, B) ==
    {<<bi + i, bj + j>> : i \in {r \in 0..(B - 2) : r % 2 = 0}, j \in 0..(B - 1)}

\* the bits that the active pairs of one block can take, on buffer img
BlockBudget(img, bi, bj, B) ==
    LET me == ComputeMeanOfMedians(img, bi, bj, B)
        act == {p \in BlockPairs(bi, bj, B) :
                   GateOpen(img[p[1]][p[2]], img[p[1] + 1][p[2]], me, B)}
        rows == {p[1] : p \in act}
        rowsum == [r \in rows |->
                     SumOver({p[2] : p \in {q \in act : q[1] = r}},
                             [c \in bj..(bj + B - 1) |->
                                 BitsPerPair(GetEmbeddingCase(img[r][c], img[r + 1][c]))])]
    IN  SumOver(rows, rowsum)

\* the bits that the active pairs of the eligible blocks can take: the buffer
\* is the gray cover with the header in row 0, the scores are encode's
CapacityBits ==
    LET img == WriteHeader(enc, enc.gray_image)
        elig == EligibleSequence(enc.block_edge_scores, BLOCK_SIZE, EDGE_THRESHOLD)
    IN  SumOver(1..Len(elig),
                [k \in 1..Len(elig) |-> BlockBudget(img, elig[k][1], elig[k][2], BLOCK_SIZE)])

----------------------------------------------------------------------------
(* C1..C10 *)

\* C1: adaptive round trip. When encode embedded the whole payload (the
\* eligible blocks had the capacity), decode of the saved stego image with the
\* same block size and threshold returns exactly the payload bytes.
C1_RoundTrip ==
    (pc = "done" /\ dec_ret.status = "returned"
       /\ enc_ret.metadata.embedded_bits = enc_ret.metadata.payload_bits)
    => dec_ret.bytes = payload_bytes

\* C2: the sequence of eligible blocks that decode derives from the stego
\* image is the sequence encode used while embedding.
C2_SameBlockSequence ==
    DecodeHasOrder
    => EligibleSequence(dec.block_edge_scores, BLOCK_SIZE, EDGE_THRESHOLD)
         = EligibleSequence(enc.block_edge_scores, BLOCK_SIZE, EDGE_THRESHOLD)

\* C3: for every pair encode visited, the decoder's test |p1 - p2| <= Me on the
\* stego image, with Me recomputed from the stego block, gives the result that
\* encode's test gave when it visited the pair.
C3_GateAgreement ==
    (EncodeReturned /\ JustReturned)
    => \A g \in enc.gate_log :
          GateOnImage(out_file.img, g[1], g[2], BLOCK_SIZE) = g[3]

\* C4: once the header is written, after every block and in the saved file,
\* bits 4..7 of every sample equal those of the gray cover sample, so the case
\* of every vertical pair is the case computed on the cover.
C4_UpperBitsKept ==
    (EncodeHasBuffer /\ (enc.at \in {"sort", "block_end", "finish"} \/ JustReturned))
    => /\ \A y \in 0..(enc.h - 1) : \A x \in 0..(enc.w - 1) :
             /\ enc.stego_image[y][x] \div 16 = enc.gray_image[y][x] \div 16
             /\ y + 1 < enc.h
                => GetEmbeddingCase(enc.stego_image[y][x], enc.stego_image[y + 1][x])
                     = GetEmbeddingCase(enc.gray_image[y][x], enc.gray_image[y + 1][x])
       /\ out_file.exists => out_file.img = enc.stego_image
       /\ JustReturned => enc.gray_image = CoverGray

\* C4 witness: encode returned after writing payload bits into some sample
C4_Witness ==
    /\ EncodeReturned
    /\ enc.embedded_bits > 0
    /\ \E y \in 0..(enc.h - 1) : \E x \in 0..(enc.w - 1) :
          out_file.img[y][x] \div 2 # enc.gray_image[y][x] \div 2

\* C5: the UB, LB and PayloadLength that decode reads from row 0 are the
\* largest gray sample, the smallest gray sample and 8 * len(payload), which
\* are the values encode reports, whatever was embedded after the header.
C5_HeaderRoundTrip ==
    DecodeHasHeader
    => LET \* the samples of the gray cover, their largest and their smallest
           Samples == {enc.gray_image[y][x] : y \in 0..(enc.h - 1), x \in 0..(enc.w - 1)}
           MaxOf == CHOOSE v \in Samples : \A u \in Samples : u <= v
           MinOf == CHOOSE v \in Samples : \A u \in Samples : v <= u
       IN
       /\ dec.UB = MaxOf
       /\ dec.LB = MinOf
       /\ dec.payload_len = 8 * Len(payload_bytes)
       /\ dec.UB = enc_ret.metadata.UB
       /\ dec.LB = enc_ret.metadata.LB
       /\ dec.payload_len = enc_ret.metadata.payload_bits

\* C5 witness: decode has read the header of an image in which encode wrote
\* payload bits into a pair whose upper pixel is a header cell
C5_Witness ==
    /\ DecodeHasHeader
    /\ dec.UB > dec.LB /\ dec.payload_len > 0
    /\ \E g \in enc.gate_log : g[1] = 0 /\ g[2] < HeaderWidth /\ g[3]

\* C6: with B = 8 no pixel of row 0, columns 0..47 is a pixel of a pair that
\* the pair walk of encode or decode visits.
C6_HeaderCellsNotWalked ==
    BLOCK_SIZE = 8
    => \A g \in enc.gate_log \cup dec.gate_log : ~(g[1] = 0 /\ g[2] < HeaderWidth)

\* C7: the edge map is stable under changes of bit 0: the map of the buffer
\* that carries the header in the LSBs of row 0 is the map of the gray cover.
C7_EdgeMapLSBStable ==
    (pc = "encode" /\ enc.at = "sort")
    => ComputeEdgeMap(enc.stego_image, enc.h, enc.w)
         = ComputeEdgeMap(enc.gray_image, enc.h, enc.w)

\* C8: for the same cover, block size and payload, encode with a higher
\* threshold never reports more embedded bits.
C8_CapacityMonotone ==
    (EncodeReturned /\ JustReturned)
    => \A T2 \in Thresholds :
          T2 > EDGE_THRESHOLD
          => EncodeRun(EncodeEntry, cover_image_path, payload_bytes, BLOCK_SIZE, T2).embedded_bits
               <= enc_ret.metadata.embedded_bits

\* C8 witness: a higher threshold embeds strictly fewer bits, and not none
C8_Witness ==
    /\ EncodeReturned /\ JustReturned
    /\ \E T2 \in Thresholds :
          /\ T2 > EDGE_THRESHOLD
          /\ LET other == EncodeRun(EncodeEntry, cover_image_path, payload_bytes,
                                    BLOCK_SIZE, T2).embedded_bits
             IN  0 < other /\ other < enc_ret.metadata.embedded_bits

\* C9: when an active pair's budget exceeds the k >= 1 payload bits that
\* remain, encode consumes the k bits and writes them into the first k target
\* bits of the pair, in the listed order, leaving the other target bits as
\* they were.  TargetBits lists the bit positions that a pair of the given
\* case carries, in the order the payload bits are assigned: <<1, k>> is bit
\* k of p1, <<2, k>> is bit k of p2.
C9_PartialWrite ==
    [][(/\ pc = "encode" /\ enc.at = "pair"
        /\ enc.bit_idx < enc.payload_len
        /\ LET blk == enc.block_edge_scores[enc.k]
               p1 == enc.stego_image[blk.bi + enc.i][blk.bj + enc.j]
               p2 == enc.stego_image[blk.bi + enc.i + 1][blk.bj + enc.j]
           IN  /\ GateOpen(p1, p2, enc.Me, BLOCK_SIZE)
               /\ enc.payload_len - enc.bit_idx < BitsPerPair(GetEmbeddingCase(p1, p2)))
       => LET blk == enc.block_edge_scores[enc.k]
              y == blk.bi + enc.i
              x == blk.bj + enc.j
              old == <<enc.stego_image[y][x], enc.stego_image[y + 1][x]>>
              new == <<enc'.stego_image[y][x], enc'.stego_image[y + 1][x]>>
              k == enc.payload_len - enc.bit_idx
              TargetBits(case) ==
                  CASE case = 0 -> << <<1, 1>>, <<2, 1>> >>
                    [] case = 1 -> << <<1, 2>>, <<1, 3>>, <<2, 1>> >>
                    [] case = 2 -> << <<1, 1>>, <<2, 2>>, <<2, 3>> >>
                    [] case = 3 -> << <<1, 2>>, <<1, 3>>, <<2, 2>>, <<2, 3>> >>
              target == TargetBits(GetEmbeddingCase(old[1], old[2]))
          IN  /\ enc'.bit_idx = enc.bit_idx + k
              /\ \A n \in 1..Len(target) :
                    Bit(new[target[n][1]], target[n][2])
                      = IF n <= k THEN enc.payload_bits[enc.bit_idx + n]
                        ELSE Bit(old[target[n][1]], target[n][2])]_vars

\* C10: when the active pairs of the eligible blocks cannot hold the payload,
\* encode does not raise: it saves the stego image, whose header records the
\* full payload length, and returns embedded_bits < payload_bits.
C10_ShortfallCompletes ==
    /\ (pc = "done" /\ enc_ret.status = "raised")
       => (~FileReadable(cover_image_path) \/ enc.w < HeaderWidth)
    /\ (JustReturned /\ CapacityBits < 8 * Len(payload_bytes))
       => /\ enc_ret.status = "returned"
          /\ out_file.exists
          /\ out_file.img = enc.stego_image
          /\ ParseBits(ReadLSBs(out_file.img, UBWidth + LBWidth, LenWidth))
               = 8 * Len(payload_bytes)
          /\ enc_ret.metadata.payload_bits = 8 * Len(payload_bytes)
          /\ enc_ret.metadata.embedded_bits = CapacityBits
          /\ enc_ret.metadata.embedded_bits < enc_ret.metadata.payload_bits

\* C10 witness: encode returned with some bits embedded, but not all
C10_Witness ==
    /\ JustReturned
    /\ CapacityBits < 8 * Len(payload_bytes)
    /\ 0 < enc_ret.metadata.embedded_bits
    /\ enc_ret.metadata.embedded_bits < enc_ret.metadata.payload_bits

----------------------------------------------------------------------------
(* C11..C20 *)

\* C11: when the payload bits exceed the bits that the active pairs of the
\* eligible blocks can take, encode raises a capacity error and writes no
\* output file.
C11_CapacityErrorNoOutput ==
    (JustReturned /\ CapacityBits < 8 * Len(payload_bytes))
    => /\ enc_ret.status = "raised"
       /\ ~out_file.exists

\* the bits that the active pairs of decode's eligible blocks hold in the saved
\* image
DecodeSupply ==
    LET elig == EligibleSequence(dec.block_edge_scores, BLOCK_SIZE, EDGE_THRESHOLD)
    IN  SumOver(1..Len(elig),
                [k \in 1..Len(elig) |->
                    BlockBudget(out_file.img, elig[k][1], elig[k][2], BLOCK_SIZE)])

\* C12: decode never holds more than L = PayloadLength extracted bits; it
\* returns without raising; with at least L bits in the eligible blocks it
\* returns floor(L / 8) bytes, with fewer it returns the whole bytes of the
\* bits it extracted, each byte packed from 8 consecutive bits.
C12_DecodeStopsAtLength ==
    /\ Len(dec.extracted_bits) <= dec.payload_len
    /\ (pc = "done" /\ enc_ret.status = "returned")
       => /\ dec_ret.status = "returned"
          /\ LET got == Min(dec.payload_len, DecodeSupply)
             IN  /\ Len(dec.extracted_bits) = got
                 /\ Len(dec_ret.bytes) = got \div 8
                 /\ \A b \in 1..(got \div 8) :
                       dec_ret.bytes[b]
                         = ParseBits(SubSeq(dec.extracted_bits, 8 * (b - 1) + 1, 8 * b))

\* C12 witness: decode returned at least one byte from fewer than L bits, the
\* last of which do not fill a byte
C12_Witness ==
    /\ pc = "done" /\ dec_ret.status = "returned"
    /\ DecodeSupply < dec.payload_len
    /\ Len(dec.extracted_bits) % 8 # 0
    /\ Len(dec_ret.bytes) >= 1

\* C16: encode on a readable cover narrower than the 48 header columns ends
\* with an exception raised to the caller (numpy's IndexError from the header
\* writes), never returns, and no output file is written.
C16_NarrowCoverRaises ==
    (FileReadable(cover_image_path) /\ CoverWidth(cover_image_path) < HeaderWidth)
    => /\ enc_ret.status # "returned"
       /\ ~out_file.exists
       /\ pc # "decode"
       /\ pc = "done" => (enc_ret.status = "raised" /\ enc_ret.error = "IndexError")

\* C16 witness: encode on a narrow cover has raised
C16_Witness ==
    /\ pc = "done"
    /\ FileReadable(cover_image_path)
    /\ CoverWidth(cover_image_path) < HeaderWidth
    /\ enc_ret.status = "raised"

\* C17: once the header is written, after every block and in the saved file,
\* bit 0 of every sample outside row 0, columns 0..47 is bit 0 of the gray
\* cover sample, and no sample differs from the cover above bit 3.
C17_LSBKeptOutsideHeader ==
    (EncodeHasBuffer /\ (enc.at \in {"sort", "block_end", "finish"} \/ JustReturned))
    => /\ \A y \in 0..(enc.h - 1) : \A x \in 0..(enc.w - 1) :
             /\ ~(y = 0 /\ x < HeaderWidth)
                => enc.stego_image[y][x] % 2 = enc.gray_image[y][x] % 2
             /\ enc.stego_image[y][x] \div 16 = enc.gray_image[y][x] \div 16
       /\ out_file.exists => out_file.img = enc.stego_image

\* C17 witness: the saved file differs from the cover in a sample outside the
\* header cells whose bit 0 is 1, and in row 0 beyond column 47
C17_Witness ==
    /\ JustReturned
    /\ \E y \in 1..(enc.h - 1) : \E x \in 0..(enc.w - 1) :
          /\ out_file.img[y][x] # enc.gray_image[y][x]
          /\ enc.gray_image[y][x] % 2 = 1
    /\ \E x \in HeaderWidth..(enc.w - 1) : out_file.img[0][x] # enc.gray_image[0][x]

\* neighbours of a sorted list are in descending score order, equal scores in
\* ascending tile order (which gives the same for any two entries); TileIndex
\* is the row-major index of the tile of a scored block
OrderedBlocks(scores, w, B) ==
    LET TileIndex(r) == (r.bi \div B) * (w \div B) + (r.bj \div B)
    IN  \A a \in 1..(Len(scores) - 1) :
           \/ scores[a].score > scores[a + 1].score
           \/ /\ scores[a].score = scores[a + 1].score
              /\ TileIndex(scores[a]) < TileIndex(scores[a + 1])

\* every pair visited so far lies in one of the first k blocks of the list
WalkedInListOrder(log, scores, k, B) ==
    \A g \in log :
       \E m \in 1..Min(k, Len(scores)) :
          /\ scores[m].bi <= g[1] /\ g[1] < scores[m].bi + B
          /\ scores[m].bj <= g[2] /\ g[2] < scores[m].bj + B

\* C20: in encode and in decode the block list is in descending score order
\* with equal scores in ascending row-major tile order, and the blocks are
\* processed in list order.
C20_BlockComparator ==
    /\ (EncodeHasBuffer /\ enc.at \notin {"header", "sort"})
       => /\ OrderedBlocks(enc.block_edge_scores, enc.w, BLOCK_SIZE)
          /\ WalkedInListOrder(enc.gate_log, enc.block_edge_scores, enc.k, BLOCK_SIZE)
    /\ DecodeHasOrder
       => /\ OrderedBlocks(dec.block_edge_scores, dec.w, BLOCK_SIZE)
          /\ WalkedInListOrder(dec.gate_log, dec.block_edge_scores, dec.k, BLOCK_SIZE)

\* C20 witness: encode has walked two blocks of a list that has both a strict
\* descent and a tie, and decode has its list
C20_Witness ==
    /\ DecodeHasOrder
    /\ enc.blocks_used >= 2
    /\ \E a \in 1..(Len(enc.block_edge_scores) - 1) :
          enc.block_edge_scores[a].score = enc.block_edge_scores[a + 1].score
    /\ \E a \in 1..(Len(enc.block_edge_scores) - 1) :
          enc.block_edge_scores[a].score > enc.block_edge_scores[a + 1].score
    /\ \E a \in 1..(Len(dec.block_edge_scores) - 1) :
          dec.block_edge_scores[a].score = dec.block_edge_scores[a + 1].score

\* the channel that carries the flag of the k-th character (k from 1): the
\* third channel of the third pixel of the k-th triple of the saved file
LsbFlagOf(k) ==
    LET c == CoordSets(PIXELS_PER_CHAR * (k - 1), lsb.file.width)[3]
    IN  Bit(lsb.file.pixels[c][3], 0)

\* C13: for a ciphertext of N >= 1 characters that fits, decode reads one
\* character per consecutive row-major triple of the saved image and stops at
\* the triple of the last character, the first whose ninth LSB is 0; the
\* extracted ciphertext is the embedded one.
C13_LsbRoundTrip ==
    (lsb.at = "done" /\ Len(lsb.cipher_text) >= 1)
    => LET N == Len(lsb.cipher_text)
       IN  /\ lsb.dec_cipher_text = lsb.cipher_text
           /\ lsb.dec_visited = N
           /\ lsb.dec_idx = PIXELS_PER_CHAR * N
           /\ LsbFlagOf(N) = 0
           /\ \A k \in 1..(N - 1) : LsbFlagOf(k) = 1

\* C13 witness: a round trip of two or more characters, one of them 0, on an
\* image whose LSBs are all 1 and whose rows do not hold whole triples
C13_Witness ==
    /\ lsb.at = "done"
    /\ Len(lsb.cipher_text) >= 2
    /\ lsb.pattern = "ones"
    /\ lsb.width % PIXELS_PER_CHAR # 0
    /\ \E k \in 1..Len(lsb.cipher_text) : lsb.cipher_text[k] = 0
    /\ lsb.dec_cipher_text = lsb.cipher_text

\* C14: encode raises ValueError exactly when 3 * N_chars > W * H, and then
\* no pixel has been modified and no output file is written; the character
\* loop is entered, with the pixels still those of the cover, only when the
\* text fits.
C14_LsbCapacityCheck ==
    LET small == PIXELS_PER_CHAR * Len(lsb.cipher_text) > lsb.size[1] * lsb.size[2]
    IN  /\ (lsb.at # "idle" /\ small)
           => /\ lsb.at \in {"enc_open", "raised"}
              /\ ~lsb.file.exists
              /\ lsb.at = "raised"
                 => /\ lsb.error = "ValueError"
                    /\ lsb.pixels = LsbCover(lsb.size, lsb.pattern)
        /\ (lsb.at # "idle" /\ ~small) => lsb.at # "raised"
        /\ (lsb.at = "enc_char" /\ lsb.i = 0)
           => lsb.pixels = LsbCover(lsb.size, lsb.pattern)

\* C14 witness: encode raised for a text of two characters or more whose
\* first character alone would fit and would change the pixels
C14_Witness ==
    /\ lsb.at = "raised"
    /\ lsb.error = "ValueError"
    /\ Len(lsb.cipher_text) >= 2
    /\ lsb.size[1] * lsb.size[2] >= PIXELS_PER_CHAR
    /\ lsb.pattern = "ones"
    /\ lsb.cipher_text[1] = 0

\* C15: the row-major list of selectable coordinates that decode computes
\* from the stego image is the list encode computed from the cover, and for a
\* ciphertext of one character or more that fits, decode extracts exactly the
\* ciphertext that encode embedded.
C15_EdgeAdaptiveSync ==
    /\ ea.at \in {"dec_loop", "dec_return", "done"}
       => ea.dec_embeddable_coords = ea.embeddable_coords
    /\ (ea.at = "done" /\ Len(ea.cipher_text) >= 1)
       => ea.dec_cipher_text = ea.cipher_text

\* C15 witness: a round trip of two characters or more in which encode
\* changed pixels, on a cover where some coordinates are selectable and some
\* are not
C15_Witness ==
    /\ ea.at = "done"
    /\ Len(ea.cipher_text) >= 2
    /\ ea.file.pixels # EaCover(ea.size, ea.pattern)
    /\ Len(ea.embeddable_coords) < ea.width * ea.height
    /\ ea.dec_cipher_text = ea.cipher_text

\* C18: for every image I the MSE of (I, I) is 0, the PSNR of (I, I) is
\* infinite, the histogram deviation of (I, I) is 0, and for any pair the PSNR
\* is infinite exactly when the MSE is 0.
C18_MetricSanity ==
    /\ (met.at \in {"psnr", "histogram", "done"} /\ met.original = met.stego)
       => met.mse.sse = 0
    /\ (met.at \in {"histogram", "done"})
       => /\ met.original = met.stego => met.psnr.inf
          /\ met.psnr.inf <=> met.mse.sse = 0
    /\ (met.at = "done" /\ met.original = met.stego) => met.histogram_deviation = 0

\* C18 witness: the metrics of (I, I) are computed for an image with two
\* different samples
C18_Witness ==
    /\ met.at = "done"
    /\ met.original = met.stego
    /\ \E k \in 1..Len(met.original) : met.original[k] # met.original[1]
    /\ met.psnr.inf

\* C19: analyze reports, over the non-overlapping groups of mask_size samples,
\* the fractions of groups that the positive mask (all LSBs flipped) and the
\* negative mask (even-indexed LSBs flipped) make regular and singular, the
\* rate |d_R| / (|d_R| + |d_S|) when that denominator is above 0.001 and 0
\* otherwise, and stego_detected iff the rate is above 0.1.
C19_RSResult ==
    rs.at = "done"
    => LET m == rs.mask_size
           t == IF Len(rs.pixels) >= m THEN Len(rs.pixels) \div m ELSE 0
           groups == [g \in 1..t |-> SubSeq(rs.pixels, (g - 1) * m + 1, g * m)]
           RsCount(Mask(_), class) ==
               Cardinality({g \in 1..t :
                               LET f == CalculateSmoothness(groups[g])
                                   fm == CalculateSmoothness(Mask(groups[g]))
                               IN  CASE class = "S" -> fm > f
                                     [] class = "R" -> fm < f})
           All(g) == [k \in 1..Len(g) |-> FlipLsb(g[k])]
           Even(g) == [k \in 1..Len(g) |-> IF k % 2 = 1 THEN FlipLsb(g[k]) ELSE g[k]]
           RM == RsCount(All, "R")
           SM == RsCount(All, "S")
           RN == RsCount(Even, "R")
           SN == RsCount(Even, "S")
           a == Abs(RM - RN)
           b == Abs(SM - SN)
           res == rs.result
       IN  /\ res.total_groups = t
           /\ t > 0 => /\ res.RM = <<RM, t>> /\ res.SM = <<SM, t>>
                       /\ res.RN = <<RN, t>> /\ res.SN = <<SN, t>>
           /\ (t > 0 /\ 1000 * (a + b) > t)
              => res.embedding_rate_estimate[1] * (a + b)
                   = a * res.embedding_rate_estimate[2]
           /\ ~(t > 0 /\ 1000 * (a + b) > t) => res.embedding_rate_estimate[1] = 0
           /\ res.stego_detected
                <=> 10 * res.embedding_rate_estimate[1] > res.embedding_rate_estimate[2]

\* C19 witness: a result over two groups with regular and singular groups
\* under both masks and a rate strictly between 0 and 1
C19_Witness ==
    /\ rs.at = "done"
    /\ rs.total_groups = 2
    /\ rs.RM + rs.RN > 0
    /\ rs.SM + rs.SN > 0
    /\ rs.result.stego_detected
    /\ 0 < rs.result.embedding_rate_estimate[1]
    /\ rs.result.embedding_rate_estimate[1] < rs.result.embedding_rate_estimate[2]

----------------------------------------------------------------------------
(* C21..C30 *)

\* C21: at every point of encode after the block list is built, and in the
\* saved file, every sample of the tile at (0, 0), of every listed block whose
\* score is below the threshold, and of the partial tiles at the right and
\* bottom edges equals the gray cover sample, except that the samples of
\* row 0, columns 0..47 may differ from it in bit 0.
C21_SkippedBlocksUntouched ==
    (EncodeHasBuffer /\ enc.at \notin {"header", "sort"})
    => LET B == BLOCK_SIZE
           kept(y, x) ==
               \/ enc.stego_image[y][x] = enc.gray_image[y][x]
               \/ /\ y = 0 /\ x < HeaderWidth
                  /\ enc.stego_image[y][x] \div 2 = enc.gray_image[y][x] \div 2
           rows == 0..(enc.h - 1)
           cols == 0..(enc.w - 1)
       IN  /\ \A y \in rows \cap 0..(B - 1) : \A x \in cols \cap 0..(B - 1) : kept(y, x)
           /\ \A y \in ((enc.h \div B) * B)..(enc.h - 1) : \A x \in cols : kept(y, x)
           /\ \A x \in ((enc.w \div B) * B)..(enc.w - 1) : \A y \in rows : kept(y, x)
           /\ \A m \in 1..Len(enc.block_edge_scores) :
                 LET r == enc.block_edge_scores[m]
                 IN  BelowThreshold(r.score, B, EDGE_THRESHOLD)
                     => \A y \in r.bi..(r.bi + B - 1) : \A x \in r.bj..(r.bj + B - 1) :
                           kept(y, x)
           /\ out_file.exists => out_file.img = enc.stego_image

\* C21 witness: encode returned after embedding bits on a cover that has
\* partial tiles at the right and at the bottom, a listed block below the
\* threshold and a block that was used
C21_Witness ==
    /\ JustReturned
    /\ enc.embedded_bits > 0 /\ enc.blocks_used > 0
    /\ enc.h % BLOCK_SIZE # 0 /\ enc.w % BLOCK_SIZE # 0
    /\ \E m \in 1..Len(enc.block_edge_scores) :
          BelowThreshold(enc.block_edge_scores[m].score, BLOCK_SIZE, EDGE_THRESHOLD)

\* C22: when the bits given to _embed_bits_in_pixel_pair are as many as the
\* budget of the pair's case, _extract_bits_from_pixel_pair on the pair it
\* returns gives those bits, in the same order.
C22_PairInverse ==
    (pipe.at \in {"pack", "done"} /\ pipe.bits_to_embed # <<>>
       /\ Len(pipe.bits_to_embed) = <<2, 3, 3, 4>>[GetEmbeddingCase(pipe.p1, pipe.p2) + 1])
    => pipe.bits = pipe.bits_to_embed

\* C22 witness: a pair of case 1 has taken three bits, not all equal, that
\* changed both samples, and the extraction is done
C22_Witness ==
    /\ pipe.at = "done"
    /\ pipe.p1 >= 128 /\ pipe.p2 < 128
    /\ Len(pipe.bits_to_embed) = 3
    /\ pipe.bits_to_embed[1] # pipe.bits_to_embed[2]
    /\ pipe.p1_new # pipe.p1 /\ pipe.p2_new # pipe.p2
    /\ Len(pipe.bits) = 3

\* C23: the case of a pair is 0, 1, 2, 3 for the (bit 7 of p1, bit 7 of p2)
\* patterns (0,0), (1,0), (0,1), (1,1); encode takes for the pair the budget
\* 2, 3, 3, 4 of its case or the bits that remain, whichever is fewer; the
\* extractor returns as many bits as the budget.
C23_CaseTable ==
    LET m1 == pipe.p1 \div 128
        m2 == pipe.p2 \div 128
        case == m1 + 2 * m2
        budget == <<2, 3, 3, 4>>[case + 1]
        taken == Len(pipe.bits_to_embed)
    IN  /\ GetEmbeddingCase(pipe.p1, pipe.p2) = case
        /\ BitsPerPair(case) = budget
        /\ taken <= budget
        /\ pipe.at \in {"embed", "extract"}
           => /\ taken >= 1
              /\ taken = budget \/ pipe.bit_idx = pipe.payload_len
        /\ (pipe.at \in {"pack", "done"} /\ pipe.bits_to_embed # <<>>)
           => /\ Len(pipe.bits) = budget
              /\ GetEmbeddingCase(pipe.p1_new, pipe.p2_new) = case

\* C23 witness: a pair of case 2 took the two bits that remained of its budget
\* of three, and the extractor returned three bits
C23_Witness ==
    /\ pipe.at = "done"
    /\ pipe.p1 < 128 /\ pipe.p2 >= 128
    /\ Len(pipe.bits_to_embed) = 2
    /\ Len(pipe.bits) = 3

\* C24: the bit string of the payload has bit 7 of byte 0 first, eight bits a
\* byte; packing its first c bits gives the first floor(c / 8) bytes of the
\* payload, so packing the whole string gives the payload and a trailing group
\* of fewer than eight bits is dropped.
C24_BitPacking ==
    /\ pipe.at \notin {"idle", "format"}
       => /\ Len(pipe.payload_bits) = 8 * Len(pipe.payload_bytes)
          /\ \A b \in 1..Len(pipe.payload_bytes) : \A k \in 0..7 :
                pipe.payload_bits[8 * (b - 1) + 1 + k]
                  = (pipe.payload_bytes[b] \div (2 ^ (7 - k))) % 2
    /\ pipe.at = "done"
       => /\ Len(pipe.payload) = pipe.bit_idx \div 8
          /\ \A b \in 1..Len(pipe.payload) : pipe.payload[b] = pipe.payload_bytes[b]
          /\ pipe.bit_idx = pipe.payload_len => pipe.payload = pipe.payload_bytes

\* C24 witness: the whole bit string of a two-byte payload was packed
C24_Witness ==
    /\ pipe.at = "done"
    /\ Len(pipe.payload_bytes) = 2
    /\ pipe.payload_bytes[1] # pipe.payload_bytes[2]
    /\ pipe.bit_idx = pipe.payload_len
    /\ pipe.payload = pipe.payload_bytes

\* C25: the bytes decode returns do not depend on the UB and LB fields: the
\* saved image with bit 0 of one sample of row 0, columns 0..15 inverted
\* decodes, with the same block size and threshold, to the bytes that the
\* saved image decodes to.
C25_BoundsDoNotGate ==
    (pc = "done" /\ dec_ret.status = "returned")
    => \A c \in 0..(UBWidth + LBWidth - 1) :
          LET v == out_file.img[0][c]
              other == [out_file EXCEPT !.img[0][c] = IF v % 2 = 0 THEN v + 1 ELSE v - 1]
              run == DecodeRun(DecodeEntry, other, BLOCK_SIZE, EDGE_THRESHOLD)
          IN  PackBytes(run.extracted_bits) = dec_ret.bytes

\* C26: when every listed block (every whole tile but the one at (0, 0)) has
\* an edge score below the threshold, encode embeds nothing and uses no block
\* at any point, returns embedded_bits = 0 and blocks_used = 0, and the stego
\* buffer and the saved file differ from the gray cover at most in bit 0 of
\* row 0, columns 0..47.
C26_NoEligibleBlocks ==
    (EncodeHasBuffer /\ enc.at \notin {"header", "sort"}
       /\ \A m \in 1..Len(enc.block_edge_scores) :
             enc.block_edge_scores[m].score
               < EDGE_THRESHOLD * BLOCK_SIZE * BLOCK_SIZE * SqrtScale)
    => /\ enc.embedded_bits = 0 /\ enc.blocks_used = 0 /\ enc.bit_idx = 0
       /\ enc.at # "pair"
       /\ \A y \in 0..(enc.h - 1) : \A x \in 0..(enc.w - 1) :
             \/ enc.stego_image[y][x] = enc.gray_image[y][x]
             \/ /\ y = 0 /\ x < HeaderWidth
                /\ enc.stego_image[y][x] \div 2 = enc.gray_image[y][x] \div 2
       /\ JustReturned
          => /\ enc_ret.status = "returned"
             /\ enc_ret.metadata.embedded_bits = 0
             /\ enc_ret.metadata.blocks_used = 0
             /\ out_file.img = enc.stego_image

\* C26 witness: encode returned for a payload of two bytes on a cover whose
\* blocks are all below the threshold, some of them with a positive score, and
\* the header changed a sample
C26_Witness ==
    /\ JustReturned
    /\ Len(payload_bytes) = 2
    /\ enc_ret.metadata.embedded_bits = 0
    /\ \A m \in 1..Len(enc.block_edge_scores) :
          enc.block_edge_scores[m].score
            < EDGE_THRESHOLD * BLOCK_SIZE * BLOCK_SIZE * SqrtScale
    /\ \E m \in 1..Len(enc.block_edge_scores) : enc.block_edge_scores[m].score > 0
    /\ out_file.img # enc.gray_image

\* C27: every pair that the walk of encode or of decode visits has its upper
\* pixel in an even row i of the current block with i + 1 < B and in a column
\* of the block, so both pixels lie inside the block; it shares no pixel with
\* a pair visited before; and the encode step changes no sample but the two
\* of the pair it visits.
C27_PairWalkDisjoint ==
    [][ /\ (pc = "encode" /\ enc.at = "pair" /\ enc.bit_idx < enc.payload_len)
           => LET blk == enc.block_edge_scores[enc.k]
                  y == blk.bi + enc.i
                  x == blk.bj + enc.j
              IN  /\ enc.i % 2 = 0 /\ 0 <= enc.i /\ enc.i + 1 < BLOCK_SIZE
                  /\ 0 <= enc.j /\ enc.j < BLOCK_SIZE
                  /\ y + 1 < enc.h /\ x < enc.w
                  /\ \A g \in enc.gate_log : ~(g[2] = x /\ g[1] \in {y - 1, y, y + 1})
                  /\ \E open \in BOOLEAN : enc'.gate_log = enc.gate_log \cup {<<y, x, open>>}
                  /\ \A r \in 0..(enc.h - 1) : \A c \in 0..(enc.w - 1) :
                        enc'.stego_image[r][c] # enc.stego_image[r][c]
                        => (c = x /\ r \in {y, y + 1})
        /\ (pc = "decode" /\ dec.at = "pair" /\ Len(dec.extracted_bits) < dec.payload_len)
           => LET dblk == dec.block_edge_scores[dec.k]
                  dy == dblk.bi + dec.i
                  dx == dblk.bj + dec.j
              IN  /\ dec.i % 2 = 0 /\ 0 <= dec.i /\ dec.i + 1 < BLOCK_SIZE
                  /\ 0 <= dec.j /\ dec.j < BLOCK_SIZE
                  /\ dy + 1 < dec.h /\ dx < dec.w
                  /\ \A g \in dec.gate_log : ~(g[2] = dx /\ g[1] \in {dy - 1, dy, dy + 1})
                  /\ \E open \in BOOLEAN :
                        dec'.gate_log = dec.gate_log \cup {<<dy, dx, open>>}
      ]_vars

\* C27 witness: with an odd block size encode has written pairs of two blocks
\* and decode has visited pairs
C27_Witness ==
    /\ pc = "done"
    /\ BLOCK_SIZE = 3
    /\ enc.blocks_used >= 2
    /\ Cardinality({g \in enc.gate_log : g[3]}) >= 4
    /\ dec.gate_log # {}

\* C28: at every point of the encode walk embedded_bits equals the cursor
\* bit_idx, the cursor is never above payload_len and never decreases, and the
\* embedded_bits that encode returns is the smaller of the payload bits and
\* the bits that the active pairs of the eligible blocks can take.
C28_EmbeddedBitAccounting ==
    /\ [](/\ enc.embedded_bits = enc.bit_idx
          /\ 0 <= enc.bit_idx /\ enc.bit_idx <= enc.payload_len
          /\ JustReturned
             => /\ enc_ret.metadata.embedded_bits = enc.bit_idx
                /\ enc_ret.metadata.embedded_bits
                     = Min(8 * Len(payload_bytes), CapacityBits))
    /\ [][enc'.bit_idx >= enc.bit_idx]_vars

\* C28 witness: encode returned with the whole two-byte payload embedded in
\* two blocks or more, on a cover that could take more
C28_Witness ==
    /\ JustReturned
    /\ enc_ret.metadata.embedded_bits = 16
    /\ enc.blocks_used >= 2
    /\ CapacityBits > 16

\* C29: SteganographyLSB.encode of an N-character ciphertext changes only bit 0
\* of the nine channel values of the first 3N pixels in row-major order: in
\* the image being written and in the saved file, bits 1..7 of every channel
\* value equal the cover's, every pixel from index 3N on (from idx on while
\* the loop runs) equals the cover's, and in the file the LSB of the ninth
\* value of triple k is 1 for k < N-1 and 0 for k = N-1.
C29_LsbFrame ==
    LET N == Len(lsb.cipher_text)
        cover == LsbCover(lsb.size, lsb.pattern)
        total == lsb.size[1] * lsb.size[2]
        At(p) == <<p % lsb.size[1], p \div lsb.size[1]>>
        OnlyLsbUpTo(img, n) ==
            \A p \in 0..(total - 1) :
                /\ \A c \in 1..3 : img[At(p)][c] \div 2 = cover[At(p)][c] \div 2
                /\ p >= n => img[At(p)] = cover[At(p)]
    IN  /\ lsb.at \in {"enc_char", "enc_save"}
           => /\ lsb.idx = PIXELS_PER_CHAR * lsb.i
              /\ OnlyLsbUpTo(lsb.pixels, lsb.idx)
        /\ lsb.file.exists
           => /\ lsb.file.width = lsb.size[1] /\ lsb.file.height = lsb.size[2]
              /\ OnlyLsbUpTo(lsb.file.pixels, PIXELS_PER_CHAR * N)
              /\ \A k \in 0..(N - 1) :
                    Bit(lsb.file.pixels[At(PIXELS_PER_CHAR * k + 2)][3], 0)
                      = IF k < N - 1 THEN 1 ELSE 0

\* a saved file of a three-character ciphertext in a cover with a pixel left
\* over, whose rows do not hold whole triples and whose LSBs were changed
C29_Witness ==
    /\ lsb.file.exists
    /\ Len(lsb.cipher_text) = 3
    /\ PIXELS_PER_CHAR * Len(lsb.cipher_text) < lsb.size[1] * lsb.size[2]
    /\ lsb.size[1] % PIXELS_PER_CHAR # 0
    /\ lsb.pattern = "mix"
    /\ lsb.file.pixels # LsbCover(lsb.size, lsb.pattern)

\* C30: every run ends: encode and decode of the adaptive codec return or
\* raise, also when the header length is above the bits the image holds, and
\* SteganographyLSB returns or raises.  On the way the position of a walk,
\* (block index, loop level, row, column), grows with every step, the block
\* index stays within the list, whose blocks are distinct, and the pair
\* position stays within the block, so each block and each pair is visited at
\* most once.  SteganographyLSB.decode advances by three pixels per triple
\* and, on a file whose triples all carry the flag 1, returns after
\* total_pixels // 3 triples with fewer than 3 pixels left.
C30_Termination ==
    /\ <>(pc \in {"idle", "done"} /\ lsb.at \in {"idle", "done", "raised"})
    /\ [](LET InRange(r) ==
                /\ r.at = "block" => 1 <= r.k /\ r.k <= Len(r.block_edge_scores) + 1
                /\ r.at \in {"pair", "block_end"}
                   => 1 <= r.k /\ r.k <= Len(r.block_edge_scores)
                /\ r.at = "pair" => /\ 0 <= r.i /\ r.i < BLOCK_SIZE - 1
                                    /\ 0 <= r.j /\ r.j < BLOCK_SIZE
                /\ (r.at = "block" /\ r.k = 1)
                   => Cardinality({<<r.block_edge_scores[m].bi, r.block_edge_scores[m].bj>> :
                                      m \in 1..Len(r.block_edge_scores)})
                        = Len(r.block_edge_scores)
               total == lsb.file.width * lsb.file.height
               FlagAt(t) == LET c == CoordSets(PIXELS_PER_CHAR * t, lsb.file.width)[3]
                            IN  Bit(lsb.file.pixels[c][3], 0)
           IN  /\ pc = "encode" => InRange(enc)
               /\ pc = "decode" => InRange(dec)
               /\ lsb.at \in {"dec_loop", "dec_return", "done"}
                  => /\ lsb.dec_idx = PIXELS_PER_CHAR * lsb.dec_visited
                     /\ lsb.dec_idx <= total
               /\ (lsb.at = "done" /\ \A t \in 0..(total \div 3 - 1) : FlagAt(t) = 1)
                  => /\ lsb.dec_visited = total \div 3
                     /\ total - lsb.dec_idx < 3)
    /\ [][LET Level(at) == CASE at = "block" -> 0 [] at = "pair" -> 1 [] OTHER -> 2
              Walking(r) == r.at \in {"block", "pair", "block_end"}
              Before(a, b) ==
                  \/ a.k < b.k
                  \/ a.k = b.k /\ Level(a.at) < Level(b.at)
                  \/ a.k = b.k /\ a.at = b.at /\ a.at = "pair"
                       /\ (a.i < b.i \/ (a.i = b.i /\ a.j < b.j))
          IN  /\ (pc = "encode" /\ Walking(enc) /\ enc' # enc)
                 => (enc'.at = "finish" \/ (Walking(enc') /\ Before(enc, enc')))
              /\ (pc = "decode" /\ Walking(dec) /\ dec' # dec)
                 => (dec'.at = "finish" \/ (Walking(dec') /\ Before(dec, dec')))
              /\ (lsb.at = "dec_loop" /\ lsb'.at = "dec_loop")
                 => lsb'.dec_idx = lsb.dec_idx + 3
         ]_vars

\* C30 witness: decode of a file that encode did not write has returned after
\* walking every block of the list, with fewer bits than the header asks for
C30_Witness ==
    /\ pc = "done"
    /\ enc_ret.status = "not_called"
    /\ dec_ret.status = "returned"
    /\ dec.k = Len(dec.block_edge_scores) + 1
    /\ dec.extracted_bits # <<>>
    /\ Len(dec.extracted_bits) < dec.payload_len

====
